---- MODULE Spec2Model ----
(***************************************************************************)
(* Model of the Dowoo FPH pricing system: the market-data analyzer         *)
(* (src/src/lib/csv-parser.ts, analysis section), the three-tier pricing  *)
(* engine (src/src/lib/pricing-engine.ts), the route-distance resolver,    *)
(* the batch runner and the store they read and write.                     *)
(*                                                                         *)
(* Number representation.  JavaScript numbers are modelled by exact        *)
(* integers in fixed units:                                                *)
(*   - money amounts and prices: whole KRW;                                *)
(*   - rates (margins, risk rates, manual adjustment): hundredths;         *)
(*   - fuel efficiency: tenths of km/L;                                    *)
(*   - confidence scores: hundredths (the code rounds them to 2 decimals); *)
(*   - quantiles: numerators over 4 (the code only asks for q = 0.25, 0.5  *)
(*     and 0.75, whose interpolation fractions are multiples of 1/4).      *)
(* The amounts stay far below 2^53, where the code's double arithmetic on  *)
(* integers is exact; Math.round is floor(x + 1/2).                        *)
(* A location string "Province/District" is the sequence of its            *)
(* "/"-separated segments, <<"Province", "District">>; a bare "Province"   *)
(* is <<"Province">>.                                                      *)
(***************************************************************************)
EXTENDS Integers, Sequences, FiniteSets, TLC

VARIABLES
    costMaster,     \* CostMaster rows: item -> value (item is UNIQUE)
    marketData,     \* MarketData rows, in the order the store returns them
    routeStandard,  \* RouteStandard rows
    committed,      \* history: the calls whose upsert committed, in order
    pc,             \* per call of calculateAndSave: where it stands
    callInput,      \* per call: its FPHInput
    callCosts,      \* per call: the CostVariables it fetched
    marketSeen,     \* per call: the MarketData rows findMany returned to it
    callResult,     \* per call: the FPHResult it computed
    plan,           \* per call: what its upsert decided to do
    outcome,        \* per call: what the caller received
    batchInputs,    \* runBatchSimulation: inputs
    batchIndex,     \* runBatchSimulation: i (0-based)
    batchResults,   \* runBatchSimulation: results
    batchErrors,    \* runBatchSimulation: errors
    batchPc,        \* runBatchSimulation: idle, running, returned or thrown
    fnArgs,         \* function harness: the arguments of the function applied
    fnValue         \* function harness: what it returned, or NotCalled

storeVars == <<costMaster, marketData, routeStandard, committed>>
callVars ==
    <<pc, callInput, callCosts, marketSeen, callResult, plan, outcome>>
batchVars == <<batchInputs, batchIndex, batchResults, batchErrors, batchPc>>
harnessVars == <<fnArgs, fnValue>>
vars == <<storeVars, callVars, batchVars, harnessVars>>

\* A harness output before the call, and after it.
NotCalled == [called |-> FALSE]
Returned(v) == [called |-> TRUE, value |-> v]

-----------------------------------------------------------------------------
(* Arithmetic helpers *)

\* Math.round(n / d) for d > 0: JavaScript rounds half up, floor(x + 0.5).
RoundDiv(n, d) == (n \div d) + (IF 2 * (n % d) >= d THEN 1 ELSE 0)

\* Math.ceil(n / d) for d > 0.
CeilDiv(n, d) == -((-n) \div d)

\* The size factor left uncapped: the first argument whatever the second.
Uncapped(a, b) == a

Min(a, b) == IF a <= b THEN a ELSE b

Abs(a) == IF a < 0 THEN -a ELSE a

\* Greatest common divisor of |a| and |b|.
RECURSIVE GCD(_, _)
GCD(a, b) == IF b = 0 THEN Abs(a) ELSE GCD(Abs(b), Abs(a) % Abs(b))

RECURSIVE SumSeq(_)
SumSeq(s) == IF s = <<>> THEN 0 ELSE Head(s) + SumSeq(Tail(s))

RECURSIVE SumSq(_)
SumSq(s) == IF s = <<>> THEN 0 ELSE Head(s) * Head(s) + SumSq(Tail(s))

RECURSIVE GCDSeq(_)
GCDSeq(s) == IF s = <<>> THEN 0 ELSE GCD(Head(s), GCDSeq(Tail(s)))

\* floor((l / c)^2) for l >= 0, c > 0, computed without forming l * l.
FloorSqRatio(l, c) ==
    LET a == l \div c
        b == l % c
    IN  a * a + (2 * a * b * c + b * b) \div (c * c)

-----------------------------------------------------------------------------
(* Core statistics: csv-parser.ts, analysis section *)

MIN_SAMPLE_SIZE == 5

\* [...values].sort((a, b) => a - b): ascending insertion sort.
RECURSIVE sortedNumeric(_)
sortedNumeric(values) ==
    IF values = <<>> THEN <<>>
    ELSE LET rest == sortedNumeric(Tail(values))
             v == Head(values)
             k == Cardinality({i \in 1..Len(rest) : rest[i] < v})
         IN  SubSeq(rest, 1, k) \o <<v>> \o SubSeq(rest, k + 1, Len(rest))

\* The order statistic at floor(q * (n - 1)), without interpolation.
lowerRank(sorted, qn) ==
    IF Len(sorted) = 0 THEN 0
    ELSE 4 * sorted[((qn * (Len(sorted) - 1)) \div 4) + 1]

\* quantile(sorted, q) for q = qn / 4, returned as a numerator over 4.
\* pos = q * (n - 1); lower = floor(pos); upper = ceil(pos);
\* fraction = pos - lower = ((qn * (n - 1)) % 4) / 4.
quantile(sorted, qn) ==
    IF Len(sorted) = 0 THEN 0
    ELSE IF Len(sorted) = 1 THEN 4 * sorted[1]
    ELSE LET pos4 == qn * (Len(sorted) - 1)
             lower == pos4 \div 4
             upper == CeilDiv(pos4, 4)
             frac4 == pos4 - 4 * lower
         IN  IF lower = upper THEN 4 * sorted[lower + 1]
             ELSE sorted[lower + 1] * (4 - frac4) + sorted[upper + 1] * frac4

median(sorted) == quantile(sorted, 2)

\* A filter that keeps the values strictly inside the quartiles only.
insideQuartiles(values) ==
    LET sorted == sortedNumeric(values)
        q1 == quantile(sorted, 1)
        q3 == quantile(sorted, 3)
        Inside(v) == 4 * v > q1 /\ 4 * v < q3
    IN  [filtered |-> SelectSeq(sorted, Inside), q1 |-> q1, q3 |-> q3,
         iqr |-> q3 - q1, lowerBound |-> 2 * q1, upperBound |-> 2 * q3]

\* A filter whose fences are exclusive: v > lowerBound && v < upperBound.
insideFences(values) ==
    LET sorted == sortedNumeric(values)
        q1 == quantile(sorted, 1)
        q3 == quantile(sorted, 3)
        iqr == q3 - q1
        lowerBound == 2 * q1 - 3 * iqr
        upperBound == 2 * q3 + 3 * iqr
        Inside(v) == 8 * v > lowerBound /\ 8 * v < upperBound
    IN  [filtered |-> SelectSeq(sorted, Inside), q1 |-> q1, q3 |-> q3,
         iqr |-> iqr, lowerBound |-> lowerBound, upperBound |-> upperBound]

\* applyIQRFilter(values, 1.5).  q1, q3, iqr are numerators over 4, the
\* bounds numerators over 8 (q1 - 1.5 * iqr = (2 * q1_4 - 3 * iqr_4) / 8).
applyIQRFilter(values) ==
    LET sorted == sortedNumeric(values)
        q1 == quantile(sorted, 1)
        q3 == quantile(sorted, 3)
        iqr == q3 - q1
        lowerBound == 2 * q1 - 3 * iqr
        upperBound == 2 * q3 + 3 * iqr
        InRange(v) == 8 * v >= lowerBound /\ 8 * v <= upperBound
    IN  [filtered |-> SelectSeq(sorted, InRange), q1 |-> q1, q3 |-> q3,
         iqr |-> iqr, lowerBound |-> lowerBound, upperBound |-> upperBound]

-----------------------------------------------------------------------------
(* Province extraction *)

\* String.prototype.trim on the segment strings of the model's universe.
Trim(s) == IF s = "Seoul " THEN "Seoul" ELSE s

\* location.split("/")[0].trim(): the province, itself a (bare) location.
extractProvince(location) == <<Trim(location[1])>>

-----------------------------------------------------------------------------
(* Confidence scoring *)

\* The score of values taken as perfectly consistent (consistencyFactor 1),
\* whatever their spread.
scoreOfSizeAlone(sampleSize, filteredValues, isFallback) ==
    RoundDiv((IF isFallback THEN 7 ELSE 10) * (Min(sampleSize, 30) + 20), 5)

\* computeConfidence(sampleSize, filteredValues, isFallback), in hundredths.
\* With N = min(sampleSize, 30), P = 7 (fallback) or 10, the code returns
\* round(X) / 100 for X = (N/30 * 0.6 + cf * 0.4) * (P/10) * 100
\*                      = P * (N + 20 * cf) / 5,
\* where cf = 1 when there are fewer than 2 filtered values or their mean is
\* <= 0, and otherwise cf = max(0, 1 - sqrt(D) / s) with s the sum of the
\* values and D = m * sum(v^2) - s^2 (so that cv = sqrt(D) / s).  For
\* 0 < cf < 1 the rounded score is the largest k with X + 1/2 >= k, that is
\* with 40 * P * sqrt(D) <= s * (2 * P * (N + 20) + 5 - 10 * k).  cv is
\* scale-free, so the values are first divided by their gcd.  When X is
\* exactly k - 1/2 (which needs sqrt(D) to be an integer) the double the code
\* rounds can lie just below the tie and give k - 1; the lists drawn in this
\* module produce no such tie.
computeConfidence(sampleSize, filteredValues, isFallback) ==
    LET N == Min(sampleSize, 30)
        P == IF isFallback THEN 7 ELSE 10
        m == Len(filteredValues)
        total == SumSeq(filteredValues)
        hi == RoundDiv(P * (N + 20), 5)
        lo == RoundDiv(P * N, 5)
    IN  IF m < 2 \/ total <= 0 THEN hi
        ELSE LET g == GCDSeq(filteredValues)
                 vs == [i \in 1..m |-> filteredValues[i] \div g]
                 s == SumSeq(vs)
                 D == m * SumSq(vs) - s * s
                 E(k) == 2 * P * (N + 20) + 5 - 10 * k
                 Reaches(k) ==
                     /\ E(k) >= 0
                     /\ D <= FloorSqRatio(s * E(k), 40 * P)
             IN  IF D >= s * s THEN lo
                 ELSE CHOOSE k \in lo..hi :
                        /\ Reaches(k)
                        /\ \A j \in (k + 1)..hi : ~Reaches(j)

-----------------------------------------------------------------------------
(* Route key helpers *)

\* `${origin}||${destination}||${vehicleType}`: injective on the fields.
routeKey(origin, destination, vehicleType) ==
    <<origin, destination, vehicleType>>

\* A province key that keeps the districts.
districtRouteKey(origin, destination, vehicleType) ==
    <<origin, destination, vehicleType>>

provinceRouteKey(origin, destination, vehicleType) ==
    <<extractProvince(origin), extractProvince(destination), vehicleType>>

\* The distinct elements of s in order of first occurrence (Map insertion
\* order, which is the order of iteration of a JavaScript Map).
RECURSIVE FirstOccurrences(_)
FirstOccurrences(s) ==
    IF s = <<>> THEN <<>>
    ELSE LET prev == FirstOccurrences(SubSeq(s, 1, Len(s) - 1))
             last == s[Len(s)]
         IN  IF \E i \in 1..Len(prev) : prev[i] = last THEN prev
             ELSE Append(prev, last)

\* Step 1 of analyzeMarketData: the exact-route groups, in Map order.
routeGroups(data) ==
    LET keyOf(d) == routeKey(d.origin, d.destination, d.vehicleType)
        keys == FirstOccurrences([i \in 1..Len(data) |-> keyOf(data[i])])
        Member(k) == LET In(d) == keyOf(d) = k IN SelectSeq(data, In)
    IN  [i \in 1..Len(keys) |->
            [origin |-> keys[i][1], destination |-> keys[i][2],
             vehicleType |-> keys[i][3],
             prices |-> [j \in 1..Len(Member(keys[i])) |->
                            Member(keys[i])[j].unitPrice]]]

\* Step 2: provinceGroups.get(key); prices = <<>> stands for "no group".
provinceGroup(data, key) ==
    LET In(d) == provinceRouteKey(d.origin, d.destination, d.vehicleType) = key
        members == SelectSeq(data, In)
    IN  [origin |-> key[1], destination |-> key[2], vehicleType |-> key[3],
         prices |-> [j \in 1..Len(members) |-> members[j].unitPrice]]

-----------------------------------------------------------------------------
(* Main analysis function *)

\* The result pushed for an exact group with >= MIN_SAMPLE_SIZE prices.
exactResult(group) ==
    LET iqr == applyIQRFilter(group.prices)
        med == median(sortedNumeric(iqr.filtered))
    IN  [origin |-> group.origin, destination |-> group.destination,
         vehicleType |-> group.vehicleType,
         median |-> RoundDiv(med, 4),
         sampleSize |-> Len(group.prices),
         filteredSize |-> Len(iqr.filtered),
         q1 |-> RoundDiv(iqr.q1, 4), q3 |-> RoundDiv(iqr.q3, 4),
         iqr |-> RoundDiv(iqr.iqr, 4),
         lowerBound |-> RoundDiv(iqr.lowerBound, 8),
         upperBound |-> RoundDiv(iqr.upperBound, 8),
         confidenceScore |->
             computeConfidence(Len(group.prices), iqr.filtered, FALSE),
         isFallback |-> FALSE, fallbackLevel |-> "none"]

\* The small-sample result computed from the exact group's own prices,
\* whatever the province pool holds.
groupOnlyResult(group, provGroup) ==
    LET sorted == sortedNumeric(group.prices)
    IN  [origin |-> group.origin, destination |-> group.destination,
         vehicleType |-> group.vehicleType,
         median |-> RoundDiv(median(sorted), 4),
         sampleSize |-> Len(group.prices),
         filteredSize |-> Len(group.prices),
         q1 |-> RoundDiv(quantile(sorted, 1), 4),
         q3 |-> RoundDiv(quantile(sorted, 3), 4),
         iqr |-> 0, lowerBound |-> 0, upperBound |-> 0,
         confidenceScore |->
             computeConfidence(Len(group.prices), group.prices, TRUE),
         isFallback |-> TRUE, fallbackLevel |-> "province"]

\* The result pushed when the province pool is also too small: the raw
\* prices (provGroup?.prices ?? group.prices), no filtering.
rawFallbackResult(group, provGroup) ==
    LET prices == IF provGroup.prices = <<>> THEN group.prices
                  ELSE provGroup.prices
        sorted == sortedNumeric(prices)
        med == median(sorted)
    IN  [origin |-> group.origin, destination |-> group.destination,
         vehicleType |-> group.vehicleType,
         median |-> RoundDiv(med, 4),
         sampleSize |-> Len(prices),
         filteredSize |-> Len(prices),
         q1 |-> RoundDiv(quantile(sorted, 1), 4),
         q3 |-> RoundDiv(quantile(sorted, 3), 4),
         iqr |-> 0, lowerBound |-> 0, upperBound |-> 0,
         confidenceScore |-> computeConfidence(Len(prices), prices, TRUE),
         isFallback |-> TRUE, fallbackLevel |-> "province"]

\* The result pushed from a province pool with >= MIN_SAMPLE_SIZE prices.
provinceFallbackResult(provGroup) ==
    LET iqr == applyIQRFilter(provGroup.prices)
        med == median(sortedNumeric(iqr.filtered))
    IN  [origin |-> provGroup.origin, destination |-> provGroup.destination,
         vehicleType |-> provGroup.vehicleType,
         median |-> RoundDiv(med, 4),
         sampleSize |-> Len(provGroup.prices),
         filteredSize |-> Len(iqr.filtered),
         q1 |-> RoundDiv(iqr.q1, 4), q3 |-> RoundDiv(iqr.q3, 4),
         iqr |-> RoundDiv(iqr.iqr, 4),
         lowerBound |-> RoundDiv(iqr.lowerBound, 8),
         upperBound |-> RoundDiv(iqr.upperBound, 8),
         confidenceScore |->
             computeConfidence(Len(provGroup.prices), iqr.filtered, TRUE),
         isFallback |-> TRUE, fallbackLevel |-> "province"]

\* The threshold taken strictly: a group of exactly MIN_SAMPLE_SIZE falls
\* back.
hasMoreThanMinimum(n) == n > MIN_SAMPLE_SIZE

\* Does an exact group of this size take the exact-route branch?
hasEnoughData(n) == n >= MIN_SAMPLE_SIZE

\* Step 3 of analyzeMarketData: the loop over routeGroups, from group i on,
\* with the results pushed so far and processedProvinceKeys.
RECURSIVE computeResults(_, _, _, _, _)
computeResults(data, groups, i, results, processedProvinceKeys) ==
    IF i > Len(groups) THEN results
    ELSE LET group == groups[i]
             provKey == provinceRouteKey(group.origin, group.destination,
                                         group.vehicleType)
             provGroup == provinceGroup(data, provKey)
         IN  IF hasEnoughData(Len(group.prices))
             THEN computeResults(data, groups, i + 1,
                                 Append(results, exactResult(group)),
                                 processedProvinceKeys)
             ELSE IF provKey \in processedProvinceKeys
             THEN computeResults(data, groups, i + 1, results,
                                 processedProvinceKeys)
             ELSE IF provGroup.prices = <<>>
                     \/ ~hasEnoughData(Len(provGroup.prices))
             THEN computeResults(data, groups, i + 1,
                                 Append(results,
                                        rawFallbackResult(group, provGroup)),
                                 processedProvinceKeys \cup {provKey})
             ELSE computeResults(data, groups, i + 1,
                                 Append(results,
                                        provinceFallbackResult(provGroup)),
                                 processedProvinceKeys \cup {provKey})

\* The results left in the order they were pushed.
insertionOrder(results) == results

\* results.sort((a, b) => b.confidenceScore - a.confidenceScore): a stable
\* sort, descending by confidence.
RECURSIVE sortByConfidence(_)
sortByConfidence(results) ==
    IF results = <<>> THEN <<>>
    ELSE LET prev == sortByConfidence(SubSeq(results, 1, Len(results) - 1))
             r == results[Len(results)]
             k == Cardinality({i \in 1..Len(prev) :
                                 prev[i].confidenceScore >= r.confidenceScore})
         IN  SubSeq(prev, 1, k) \o <<r>> \o SubSeq(prev, k + 1, Len(prev))

analyzeMarketData(data) ==
    sortByConfidence(computeResults(data, routeGroups(data), 1, <<>>, {}))

-----------------------------------------------------------------------------
(* Route distance: src/unnamed/part_000 *)

\* The provinces with centroid coordinates.
PROVINCE_COORDS ==
    {"Seoul", "Incheon", "Gyeonggi", "Gangwon", "Chungbuk", "Chungnam",
     "Daejeon", "Sejong", "Jeonbuk", "Jeonnam", "Gwangju", "Gyeongbuk",
     "Gyeongnam", "Daegu", "Busan", "Ulsan", "Jeju"}

\* Known road distances: <<p1, p2, km>> stands for the entry "p1->p2": km.
ROAD_DISTANCES ==
    {<<"Busan", "Seoul", 325>>, <<"Daegu", "Seoul", 237>>,
     <<"Daejeon", "Seoul", 140>>, <<"Gwangju", "Seoul", 268>>,
     <<"Incheon", "Seoul", 28>>, <<"Gyeonggi", "Seoul", 40>>,
     <<"Gangwon", "Seoul", 133>>, <<"Chungbuk", "Seoul", 120>>,
     <<"Chungnam", "Seoul", 130>>, <<"Gyeongbuk", "Seoul", 200>>,
     <<"Gyeongnam", "Seoul", 300>>, <<"Jeonbuk", "Seoul", 200>>,
     <<"Jeonnam", "Seoul", 290>>, <<"Ulsan", "Seoul", 307>>,
     <<"Sejong", "Seoul", 120>>, <<"Busan", "Daegu", 88>>,
     <<"Busan", "Ulsan", 52>>, <<"Busan", "Gyeongnam", 70>>,
     <<"Daegu", "Gyeongbuk", 50>>, <<"Daegu", "Ulsan", 75>>,
     <<"Daejeon", "Chungbuk", 60>>, <<"Daejeon", "Chungnam", 40>>,
     <<"Daejeon", "Sejong", 25>>, <<"Gwangju", "Jeonnam", 45>>,
     <<"Gwangju", "Jeonbuk", 85>>, <<"Gyeonggi", "Incheon", 30>>,
     <<"Gyeonggi", "Gangwon", 110>>, <<"Gyeonggi", "Chungbuk", 100>>,
     <<"Gyeonggi", "Chungnam", 90>>, <<"Gyeongnam", "Jeonnam", 180>>,
     <<"Jeonbuk", "Jeonnam", 100>>, <<"Jeonbuk", "Chungnam", 90>>,
     <<"Busan", "Gwangju", 260>>, <<"Busan", "Daejeon", 200>>,
     <<"Busan", "Jeonbuk", 230>>, <<"Daegu", "Daejeon", 120>>,
     <<"Daegu", "Gwangju", 185>>, <<"Incheon", "Busan", 350>>,
     <<"Busan", "Jeju", 450>>, <<"Seoul", "Jeju", 480>>}

\* Math.round(haversineKm(PROVINCE_COORDS[p1], PROVINCE_COORDS[p2]) * 1.3),
\* evaluated in IEEE double arithmetic for every ordered pair of provinces.
HAVERSINE_ROAD_ESTIMATE ==
    {<<"Seoul", "Incheon", 35>>, <<"Seoul", "Gyeonggi", 66>>,
     <<"Seoul", "Gangwon", 140>>, <<"Seoul", "Chungbuk", 147>>,
     <<"Seoul", "Chungnam", 153>>, <<"Seoul", "Daejeon", 182>>,
     <<"Seoul", "Sejong", 157>>, <<"Seoul", "Jeonbuk", 253>>,
     <<"Seoul", "Jeonnam", 402>>, <<"Seoul", "Gwangju", 348>>,
     <<"Seoul", "Gyeongbuk", 227>>, <<"Seoul", "Gyeongnam", 337>>,
     <<"Seoul", "Daegu", 309>>, <<"Seoul", "Busan", 423>>,
     <<"Seoul", "Ulsan", 399>>, <<"Seoul", "Jeju", 590>>,
     <<"Incheon", "Seoul", 35>>, <<"Incheon", "Gyeonggi", 94>>,
     <<"Incheon", "Gangwon", 174>>, <<"Incheon", "Chungbuk", 149>>,
     <<"Incheon", "Chungnam", 136>>, <<"Incheon", "Daejeon", 178>>,
     <<"Incheon", "Sejong", 145>>, <<"Incheon", "Jeonbuk", 241>>,
     <<"Incheon", "Jeonnam", 383>>, <<"Incheon", "Gwangju", 332>>,
     <<"Incheon", "Gyeongbuk", 244>>, <<"Incheon", "Gyeongnam", 338>>,
     <<"Incheon", "Daegu", 318>>, <<"Incheon", "Busan", 430>>,
     <<"Incheon", "Ulsan", 411>>, <<"Incheon", "Jeju", 572>>,
     <<"Gyeonggi", "Seoul", 66>>, <<"Gyeonggi", "Incheon", 94>>,
     <<"Gyeonggi", "Gangwon", 94>>, <<"Gyeonggi", "Chungbuk", 113>>,
     <<"Gyeonggi", "Chungnam", 154>>, <<"Gyeonggi", "Daejeon", 154>>,
     <<"Gyeonggi", "Sejong", 148>>, <<"Gyeonggi", "Jeonbuk", 235>>,
     <<"Gyeonggi", "Jeonnam", 395>>, <<"Gyeonggi", "Gwangju", 335>>,
     <<"Gyeonggi", "Gyeongbuk", 166>>, <<"Gyeonggi", "Gyeongnam", 294>>,
     <<"Gyeonggi", "Daegu", 256>>, <<"Gyeonggi", "Busan", 370>>,
     <<"Gyeonggi", "Ulsan", 342>>, <<"Gyeonggi", "Jeju", 578>>,
     <<"Gangwon", "Seoul", 140>>, <<"Gangwon", "Incheon", 174>>,
     <<"Gangwon", "Gyeonggi", 94>>, <<"Gangwon", "Chungbuk", 188>>,
     <<"Gangwon", "Chungnam", 245>>, <<"Gangwon", "Daejeon", 231>>,
     <<"Gangwon", "Sejong", 235>>, <<"Gangwon", "Jeonbuk", 314>>,
     <<"Gangwon", "Jeonnam", 477>>, <<"Gangwon", "Gwangju", 414>>,
     <<"Gangwon", "Gyeongbuk", 185>>, <<"Gangwon", "Gyeongnam", 342>>,
     <<"Gangwon", "Daegu", 287>>, <<"Gangwon", "Busan", 397>>,
     <<"Gangwon", "Ulsan", 356>>, <<"Gangwon", "Jeju", 653>>,
     <<"Chungbuk", "Seoul", 147>>, <<"Chungbuk", "Incheon", 149>>,
     <<"Chungbuk", "Gyeonggi", 113>>, <<"Chungbuk", "Gangwon", 188>>,
     <<"Chungbuk", "Chungnam", 82>>, <<"Chungbuk", "Daejeon", 43>>,
     <<"Chungbuk", "Sejong", 61>>, <<"Chungbuk", "Jeonbuk", 126>>,
     <<"Chungbuk", "Jeonnam", 289>>, <<"Chungbuk", "Gwangju", 226>>,
     <<"Chungbuk", "Gyeongbuk", 118>>, <<"Chungbuk", "Gyeongnam", 190>>,
     <<"Chungbuk", "Daegu", 170>>, <<"Chungbuk", "Busan", 281>>,
     <<"Chungbuk", "Ulsan", 265>>, <<"Chungbuk", "Jeju", 467>>,
     <<"Chungnam", "Seoul", 153>>, <<"Chungnam", "Incheon", 136>>,
     <<"Chungnam", "Gyeonggi", 154>>, <<"Chungnam", "Gangwon", 245>>,
     <<"Chungnam", "Chungbuk", 82>>, <<"Chungnam", "Daejeon", 72>>,
     <<"Chungnam", "Sejong", 24>>, <<"Chungnam", "Jeonbuk", 107>>,
     <<"Chungnam", "Jeonnam", 249>>, <<"Chungnam", "Gwangju", 197>>,
     <<"Chungnam", "Gyeongbuk", 198>>, <<"Chungnam", "Gyeongnam", 225>>,
     <<"Chungnam", "Daegu", 230>>, <<"Chungnam", "Busan", 329>>,
     <<"Chungnam", "Ulsan", 326>>, <<"Chungnam", "Jeju", 438>>,
     <<"Daejeon", "Seoul", 182>>, <<"Daejeon", "Incheon", 178>>,
     <<"Daejeon", "Gyeonggi", 154>>, <<"Daejeon", "Gangwon", 231>>,
     <<"Daejeon", "Chungbuk", 43>>, <<"Daejeon", "Chungnam", 72>>,
     <<"Daejeon", "Sejong", 48>>, <<"Daejeon", "Jeonbuk", 83>>,
     <<"Daejeon", "Jeonnam", 247>>, <<"Daejeon", "Gwangju", 183>>,
     <<"Daejeon", "Gyeongbuk", 134>>, <<"Daejeon", "Gyeongnam", 161>>,
     <<"Daejeon", "Daegu", 158>>, <<"Daejeon", "Busan", 261>>,
     <<"Daejeon", "Ulsan", 254>>, <<"Daejeon", "Jeju", 424>>,
     <<"Sejong", "Seoul", 157>>, <<"Sejong", "Incheon", 145>>,
     <<"Sejong", "Gyeonggi", 148>>, <<"Sejong", "Gangwon", 235>>,
     <<"Sejong", "Chungbuk", 61>>, <<"Sejong", "Chungnam", 24>>,
     <<"Sejong", "Daejeon", 48>>, <<"Sejong", "Jeonbuk", 96>>,
     <<"Sejong", "Jeonnam", 249>>, <<"Sejong", "Gwangju", 192>>,
     <<"Sejong", "Gyeongbuk", 175>>, <<"Sejong", "Gyeongnam", 205>>,
     <<"Sejong", "Daegu", 207>>, <<"Sejong", "Busan", 307>>,
     <<"Sejong", "Ulsan", 303>>, <<"Sejong", "Jeju", 434>>,
     <<"Jeonbuk", "Seoul", 253>>, <<"Jeonbuk", "Incheon", 241>>,
     <<"Jeonbuk", "Gyeonggi", 235>>, <<"Jeonbuk", "Gangwon", 314>>,
     <<"Jeonbuk", "Chungbuk", 126>>, <<"Jeonbuk", "Chungnam", 107>>,
     <<"Jeonbuk", "Daejeon", 83>>, <<"Jeonbuk", "Sejong", 96>>,
     <<"Jeonbuk", "Jeonnam", 164>>, <<"Jeonbuk", "Gwangju", 100>>,
     <<"Jeonbuk", "Gyeongbuk", 196>>, <<"Jeonbuk", "Gyeongnam", 140>>,
     <<"Jeonbuk", "Daegu", 175>>, <<"Jeonbuk", "Busan", 249>>,
     <<"Jeonbuk", "Ulsan", 262>>, <<"Jeonbuk", "Jeju", 342>>,
     <<"Jeonnam", "Seoul", 402>>, <<"Jeonnam", "Incheon", 383>>,
     <<"Jeonnam", "Gyeonggi", 395>>, <<"Jeonnam", "Gangwon", 477>>,
     <<"Jeonnam", "Chungbuk", 289>>, <<"Jeonnam", "Chungnam", 249>>,
     <<"Jeonnam", "Daejeon", 247>>, <<"Jeonnam", "Sejong", 249>>,
     <<"Jeonnam", "Jeonbuk", 164>>, <<"Jeonnam", "Gwangju", 68>>,
     <<"Jeonnam", "Gyeongbuk", 350>>, <<"Jeonnam", "Gyeongnam", 227>>,
     <<"Jeonnam", "Daegu", 295>>, <<"Jeonnam", "Busan", 314>>,
     <<"Jeonnam", "Ulsan", 352>>, <<"Jeonnam", "Jeju", 190>>,
     <<"Gwangju", "Seoul", 348>>, <<"Gwangju", "Incheon", 332>>,
     <<"Gwangju", "Gyeonggi", 335>>, <<"Gwangju", "Gangwon", 414>>,
     <<"Gwangju", "Chungbuk", 226>>, <<"Gwangju", "Chungnam", 197>>,
     <<"Gwangju", "Daejeon", 183>>, <<"Gwangju", "Sejong", 192>>,
     <<"Gwangju", "Jeonbuk", 100>>, <<"Gwangju", "Jeonnam", 68>>,
     <<"Gwangju", "Gyeongbuk", 282>>, <<"Gwangju", "Gyeongnam", 166>>,
     <<"Gwangju", "Daegu", 230>>, <<"Gwangju", "Busan", 263>>,
     <<"Gwangju", "Ulsan", 295>>, <<"Gwangju", "Jeju", 243>>,
     <<"Gyeongbuk", "Seoul", 227>>, <<"Gyeongbuk", "Incheon", 244>>,
     <<"Gyeongbuk", "Gyeonggi", 166>>, <<"Gyeongbuk", "Gangwon", 185>>,
     <<"Gyeongbuk", "Chungbuk", 118>>, <<"Gyeongbuk", "Chungnam", 198>>,
     <<"Gyeongbuk", "Daejeon", 134>>, <<"Gyeongbuk", "Sejong", 175>>,
     <<"Gyeongbuk", "Jeonbuk", 196>>, <<"Gyeongbuk", "Jeonnam", 350>>,
     <<"Gyeongbuk", "Gwangju", 282>>, <<"Gyeongbuk", "Gyeongnam", 165>>,
     <<"Gyeongbuk", "Daegu", 102>>, <<"Gyeongbuk", "Busan", 213>>,
     <<"Gyeongbuk", "Ulsan", 177>>, <<"Gyeongbuk", "Jeju", 502>>,
     <<"Gyeongnam", "Seoul", 337>>, <<"Gyeongnam", "Incheon", 338>>,
     <<"Gyeongnam", "Gyeonggi", 294>>, <<"Gyeongnam", "Gangwon", 342>>,
     <<"Gyeongnam", "Chungbuk", 190>>, <<"Gyeongnam", "Chungnam", 225>>,
     <<"Gyeongnam", "Daejeon", 161>>, <<"Gyeongnam", "Sejong", 205>>,
     <<"Gyeongnam", "Jeonbuk", 140>>, <<"Gyeongnam", "Jeonnam", 227>>,
     <<"Gyeongnam", "Gwangju", 166>>, <<"Gyeongnam", "Gyeongbuk", 165>>,
     <<"Gyeongnam", "Daegu", 75>>, <<"Gyeongnam", "Busan", 110>>,
     <<"Gyeongnam", "Ulsan", 130>>, <<"Gyeongnam", "Jeju", 347>>,
     <<"Daegu", "Seoul", 309>>, <<"Daegu", "Incheon", 318>>,
     <<"Daegu", "Gyeonggi", 256>>, <<"Daegu", "Gangwon", 287>>,
     <<"Daegu", "Chungbuk", 170>>, <<"Daegu", "Chungnam", 230>>,
     <<"Daegu", "Daejeon", 158>>, <<"Daegu", "Sejong", 207>>,
     <<"Daegu", "Jeonbuk", 175>>, <<"Daegu", "Jeonnam", 295>>,
     <<"Daegu", "Gwangju", 230>>, <<"Daegu", "Gyeongbuk", 102>>,
     <<"Daegu", "Gyeongnam", 75>>, <<"Daegu", "Busan", 115>>,
     <<"Daegu", "Ulsan", 96>>, <<"Daegu", "Jeju", 422>>,
     <<"Busan", "Seoul", 423>>, <<"Busan", "Incheon", 430>>,
     <<"Busan", "Gyeonggi", 370>>, <<"Busan", "Gangwon", 397>>,
     <<"Busan", "Chungbuk", 281>>, <<"Busan", "Chungnam", 329>>,
     <<"Busan", "Daejeon", 261>>, <<"Busan", "Sejong", 307>>,
     <<"Busan", "Jeonbuk", 249>>, <<"Busan", "Jeonnam", 314>>,
     <<"Busan", "Gwangju", 263>>, <<"Busan", "Gyeongbuk", 213>>,
     <<"Busan", "Gyeongnam", 110>>, <<"Busan", "Daegu", 115>>,
     <<"Busan", "Ulsan", 59>>, <<"Busan", "Jeju", 389>>,
     <<"Ulsan", "Seoul", 399>>, <<"Ulsan", "Incheon", 411>>,
     <<"Ulsan", "Gyeonggi", 342>>, <<"Ulsan", "Gangwon", 356>>,
     <<"Ulsan", "Chungbuk", 265>>, <<"Ulsan", "Chungnam", 326>>,
     <<"Ulsan", "Daejeon", 254>>, <<"Ulsan", "Sejong", 303>>,
     <<"Ulsan", "Jeonbuk", 262>>, <<"Ulsan", "Jeonnam", 352>>,
     <<"Ulsan", "Gwangju", 295>>, <<"Ulsan", "Gyeongbuk", 177>>,
     <<"Ulsan", "Gyeongnam", 130>>, <<"Ulsan", "Daegu", 96>>,
     <<"Ulsan", "Busan", 59>>, <<"Ulsan", "Jeju", 443>>,
     <<"Jeju", "Seoul", 590>>, <<"Jeju", "Incheon", 572>>,
     <<"Jeju", "Gyeonggi", 578>>, <<"Jeju", "Gangwon", 653>>,
     <<"Jeju", "Chungbuk", 467>>, <<"Jeju", "Chungnam", 438>>,
     <<"Jeju", "Daejeon", 424>>, <<"Jeju", "Sejong", 434>>,
     <<"Jeju", "Jeonbuk", 342>>, <<"Jeju", "Jeonnam", 190>>,
     <<"Jeju", "Gwangju", 243>>, <<"Jeju", "Gyeongbuk", 502>>,
     <<"Jeju", "Gyeongnam", 347>>, <<"Jeju", "Daegu", 422>>,
     <<"Jeju", "Busan", 389>>, <<"Jeju", "Ulsan", 443>>}

\* null where the code has "object | null", and where it has
\* "number | null": a number n is then <<n>>.
Null == [isNull |-> TRUE]
NullNumber == <<>>

\* A lookup under the key "prov1->prov2" only.
lookupOneWay(prov1, prov2) ==
    IF \E t \in ROAD_DISTANCES : t[1] = prov1 /\ t[2] = prov2
    THEN <<(CHOOSE t \in ROAD_DISTANCES : t[1] = prov1 /\ t[2] = prov2)[3]>>
    ELSE NullNumber

\* ROAD_DISTANCES[key1] ?? ROAD_DISTANCES[key2] ?? null
lookupDistance(prov1, prov2) ==
    IF \E t \in ROAD_DISTANCES : t[1] = prov1 /\ t[2] = prov2
    THEN <<(CHOOSE t \in ROAD_DISTANCES : t[1] = prov1 /\ t[2] = prov2)[3]>>
    ELSE IF \E t \in ROAD_DISTANCES : t[1] = prov2 /\ t[2] = prov1
    THEN <<(CHOOSE t \in ROAD_DISTANCES : t[1] = prov2 /\ t[2] = prov1)[3]>>
    ELSE NullNumber

\* PROVINCE_COORDS is a plain object, so PROVINCE_COORDS[prov] also finds
\* the properties every object inherits from Object.prototype (a function,
\* or Object.prototype itself for "__proto__"): truthy values that are not
\* coordinate pairs.  These are the inherited names of this module's
\* universe.
OBJECT_PROTOTYPE_KEYS == {"constructor", "toString", "__proto__"}

\* The exception a call throws, in place of the value it would return.
TypeError == [thrown |-> "TypeError"]

\* if (coord1 && coord2): the lookup PROVINCE_COORDS[prov] is truthy.
hasCoords(prov) == prov \in PROVINCE_COORDS \cup OBJECT_PROTOTYPE_KEYS

\* haversineKm destructures both arguments as [lat, lng]: an inherited
\* property is not iterable and the call throws a TypeError.
getRouteDistance(origin, destination) ==
    LET prov1 == extractProvince(origin)[1]
        prov2 == extractProvince(destination)[1]
        known == lookupDistance(prov1, prov2)
    IN  IF prov1 = prov2 THEN [distanceKm |-> 30, source |-> "lookup"]
        ELSE IF known # NullNumber
        THEN [distanceKm |-> known[1], source |-> "lookup"]
        ELSE IF hasCoords(prov1) /\ hasCoords(prov2)
        THEN IF prov1 \in PROVINCE_COORDS /\ prov2 \in PROVINCE_COORDS
             THEN [distanceKm |->
                      (CHOOSE t \in HAVERSINE_ROAD_ESTIMATE :
                          t[1] = prov1 /\ t[2] = prov2)[3],
                   source |-> "haversine"]
             ELSE TypeError
        ELSE [distanceKm |-> 200, source |-> "haversine"]

-----------------------------------------------------------------------------
(* Pricing engine: src/src/lib/pricing-engine.ts *)

\* An FPHInput is a record; an optional field that is absent (undefined)
\* is absent from the record.
HasField(object, f) == f \in DOMAIN object

CostKeys ==
    {"fuel_price", "fuel_efficiency", "toll_rate", "vehicle_fixed_cost",
     "driver_profit_rate", "company_margin_rate", "freight_risk_fragile",
     "freight_risk_refrigerated", "freight_risk_hazardous"}

\* COST_DEFAULTS, in the module's units (KRW, tenths of km/L, hundredths).
COST_DEFAULTS ==
    [k \in CostKeys |->
        CASE k = "fuel_price" -> 1650
          [] k = "fuel_efficiency" -> 35
          [] k = "toll_rate" -> 120
          [] k = "vehicle_fixed_cost" -> 150000
          [] k = "driver_profit_rate" -> 15
          [] k = "company_margin_rate" -> 8
          [] k = "freight_risk_fragile" -> 12
          [] k = "freight_risk_refrigerated" -> 15
          [] k = "freight_risk_hazardous" -> 20]

\* The resolution with || in place of ??: a stored 0 gives the default.
fetchTruthyCostVariables(rows) ==
    [k \in CostKeys |->
        IF k \in DOMAIN rows /\ rows[k] # 0 THEN rows[k] ELSE COST_DEFAULTS[k]]

\* fetchCostVariables over the CostMaster rows (item -> value):
\* map.get(key) ?? COST_DEFAULTS[key].
fetchCostVariables(rows) ==
    [k \in CostKeys |-> IF k \in DOMAIN rows THEN rows[k] ELSE COST_DEFAULTS[k]]

\* VEHICLE_EFFICIENCY, in tenths of km/L.
VEHICLE_EFFICIENCY ==
    [v \in {"1t", "2.5t", "3.5t", "5t", "8t", "11t", "15t", "18t", "25t"} |->
        CASE v = "1t" -> 80 [] v = "2.5t" -> 65 [] v = "3.5t" -> 55
          [] v = "5t" -> 45 [] v = "8t" -> 40 [] v = "11t" -> 35
          [] v = "15t" -> 30 [] v = "18t" -> 28 [] v = "25t" -> 25]

\* The IEEE values that are not finite numbers, as reserved integers that no
\* amount of this module reaches.
NaN == 2147483647
PosInfinity == 2147483646
NegInfinity == -2147483646

IsFinite(x) == x \notin {NaN, PosInfinity, NegInfinity}

\* a + b in IEEE arithmetic.
Plus(a, b) ==
    IF IsFinite(a) /\ IsFinite(b) THEN a + b
    ELSE IF a = NaN \/ b = NaN THEN NaN
    ELSE IF IsFinite(a) THEN b
    ELSE IF IsFinite(b) \/ a = b THEN a
    ELSE NaN

\* Math.round(a * (n / d)) for d > 0.
RoundTimes(a, n, d) ==
    IF IsFinite(a) THEN RoundDiv(a * n, d)
    ELSE IF a = NaN \/ n = 0 THEN NaN
    ELSE IF (a = PosInfinity) = (n > 0) THEN PosInfinity
    ELSE NegInfinity

\* Math.round((km / efficiency) * price) for km > 0, efficiency in tenths:
\* a division by zero is Infinity, by NaN is NaN.
RoundQuotientTimes(km, efficiency, price) ==
    IF efficiency = NaN THEN NaN
    ELSE IF efficiency = 0 THEN RoundTimes(PosInfinity, price, 1)
    ELSE IF efficiency > 0 THEN RoundDiv(km * 10 * price, efficiency)
    ELSE RoundDiv(-(km * 10 * price), -efficiency)

\* VEHICLE_EFFICIENCY[vehicleType] ?? defaultEff.  VEHICLE_EFFICIENCY is a
\* plain object: for a name inherited from Object.prototype the lookup
\* gives a function (or an object), which is not nullish and is NaN as a
\* number.
getEfficiency(vehicleType, defaultEff) ==
    IF vehicleType \in DOMAIN VEHICLE_EFFICIENCY
    THEN VEHICLE_EFFICIENCY[vehicleType]
    ELSE IF vehicleType \in OBJECT_PROTOTYPE_KEYS THEN NaN
    ELSE defaultEff

calculateTier1(distance, vehicleType, costs) ==
    LET km == distance.distanceKm
        efficiency == getEfficiency(vehicleType, costs["fuel_efficiency"])
        fuelCost == RoundQuotientTimes(km, efficiency, costs["fuel_price"])
        tollCost == RoundDiv(km * costs["toll_rate"], 1)
        fixedCost == costs["vehicle_fixed_cost"]
        operatingCost == Plus(Plus(fuelCost, tollCost), fixedCost)
        driverProfit ==
            RoundTimes(operatingCost, costs["driver_profit_rate"], 100)
    IN  [fuelCost |-> fuelCost, tollCost |-> tollCost,
         fixedCost |-> fixedCost, driverProfit |-> driverProfit,
         subtotal |-> Plus(operatingCost, driverProfit),
         distanceKm |-> km, distanceSource |-> distance.source]

\* results.find(pred), given the set of the indices whose element satisfies
\* pred: the element at the least of them, or Null.
FindFirst(results, hits) ==
    IF hits = {} THEN Null
    ELSE results[CHOOSE i \in hits : \A j \in hits : i <= j]

\* prisma.marketData.findMany({ where: { vehicleType } }): the matching rows
\* in the order the store holds them.
findManyMarketData(rows, vehicleType) ==
    LET OfType(d) == d.vehicleType = vehicleType
    IN  SelectSeq(rows, OfType)

\* The two results.find calls of findMarketMedian: the exact match first,
\* then the province-level fallback match.
findMatch(results, origin, destination) ==
    LET exact == {i \in 1..Len(results) :
                    /\ results[i].origin = origin
                    /\ results[i].destination = destination}
        originProv == extractProvince(origin)
        destProv == extractProvince(destination)
        fallback == {i \in 1..Len(results) :
                       /\ results[i].isFallback
                       /\ results[i].origin = originProv
                       /\ results[i].destination = destProv}
    IN  IF exact # {} THEN FindFirst(results, exact)
        ELSE FindFirst(results, fallback)

\* findMarketMedian, from the rows findMany returned (allData).
findMarketMedian(allData, origin, destination) ==
    IF Len(allData) = 0 THEN Null
    ELSE findMatch(analyzeMarketData(allData), origin, destination)

\* A missing market result blended as a median of 0 at the default market
\* confidence 0.3, instead of passed through.
blendWithNothing(tier1Base) ==
    [marketMedian |-> NullNumber, adjustmentFactor |-> 700,
     adjustedPrice |-> RoundDiv(tier1Base * 70, 100), sampleSize |-> 0,
     confidenceScore |-> 30, isFallback |-> FALSE, hasMarketData |-> FALSE]

\* The pass-through branch of calculateTier2 (marketResult is null).
\* adjustmentFactor is in thousandths.
passThroughTier2(tier1Base) ==
    [marketMedian |-> NullNumber, adjustmentFactor |-> 1000,
     adjustedPrice |-> tier1Base, sampleSize |-> 0, confidenceScore |-> 0,
     isFallback |-> FALSE, hasMarketData |-> FALSE]

\* The blend is Math.round(tier1Base * (1 - c) + median * c); when the exact
\* value is k + 1/2 the double can lie just below it and give k, which no
\* price of this module's universe does.
\* A tier1Base that is NaN or infinite (see calculateTier1) makes the blend
\* NaN or infinite: Infinity * 0 is NaN, NaN > 0 is false, and
\* Infinity / Infinity is NaN.
calculateTier2(tier1Base, marketResult) ==
    IF marketResult = Null THEN passThroughTier2(tier1Base)
    ELSE LET marketMedian == marketResult.median
             confidence == marketResult.confidenceScore
             adjustedPrice ==
                 IF IsFinite(tier1Base)
                 THEN RoundDiv(tier1Base * (100 - confidence)
                                   + marketMedian * confidence, 100)
                 ELSE IF tier1Base = NaN \/ confidence = 100 THEN NaN
                 ELSE tier1Base
             adjustmentFactor ==
                 IF tier1Base = NaN \/ tier1Base = NegInfinity THEN 1000
                 ELSE IF tier1Base = PosInfinity THEN NaN
                 ELSE IF tier1Base > 0
                 THEN RoundDiv(adjustedPrice * 1000, tier1Base) ELSE 1000
         IN  [marketMedian |-> <<marketMedian>>,
              adjustmentFactor |-> adjustmentFactor,
              adjustedPrice |-> adjustedPrice,
              sampleSize |-> marketResult.sampleSize,
              confidenceScore |-> confidence,
              isFallback |-> marketResult.isFallback,
              hasMarketData |-> TRUE]

\* The UTF-16 code units of the cargo descriptions and keywords of this
\* module, as a sequence of one-character strings.
Chars(s) ==
    CASE s = "" -> <<>>
      [] s = "General" -> <<"G", "e", "n", "e", "r", "a", "l">>
      [] s = "Refrigerated" -> <<"R", "e", "f", "r", "i", "g", "e", "r", "a",
            "t", "e", "d">>
      [] s = "Fragile" -> <<"F", "r", "a", "g", "i", "l", "e">>
      [] s = "HAZARDOUS chemical" -> <<"H", "A", "Z", "A", "R", "D", "O", "U",
            "S", " ", "c", "h", "e", "m", "i", "c", "a", "l">>
      [] s = "Frozen glass" -> <<"F", "r", "o", "z", "e", "n", " ", "g", "l",
            "a", "s", "s">>
      [] s = "Cold paper" -> <<"C", "o", "l", "d", " ", "p", "a", "p", "e",
            "r">>
      [] s = "Flammable frozen" -> <<"F", "l", "a", "m", "m", "a", "b", "l",
            "e", " ", "f", "r", "o", "z", "e", "n">>
      [] s = "Explosive ceramic" -> <<"E", "x", "p", "l", "o", "s", "i", "v",
            "e", " ", "c", "e", "r", "a", "m", "i", "c">>
      [] s = "Newspapers" -> <<"N", "e", "w", "s", "p", "a", "p", "e", "r",
            "s">>
      [] s = "Scolded" -> <<"S", "c", "o", "l", "d", "e", "d">>
      [] s = "ELECTRONICS" -> <<"E", "L", "E", "C", "T", "R", "O", "N", "I",
            "C", "S">>
      [] s = "Chilled" -> <<"C", "h", "i", "l", "l", "e", "d">>
      [] s = "Steel coil" -> <<"S", "t", "e", "e", "l", " ", "c", "o", "i",
            "l">>
      [] s = "Glas" -> <<"G", "l", "a", "s">>
      [] s = "fragile" -> <<"f", "r", "a", "g", "i", "l", "e">>
      [] s = "paper" -> <<"p", "a", "p", "e", "r">>
      [] s = "glass" -> <<"g", "l", "a", "s", "s">>
      [] s = "ceramic" -> <<"c", "e", "r", "a", "m", "i", "c">>
      [] s = "electronics" -> <<"e", "l", "e", "c", "t", "r", "o", "n", "i",
            "c", "s">>
      [] s = "refrigerated" -> <<"r", "e", "f", "r", "i", "g", "e", "r", "a",
            "t", "e", "d">>
      [] s = "frozen" -> <<"f", "r", "o", "z", "e", "n">>
      [] s = "chilled" -> <<"c", "h", "i", "l", "l", "e", "d">>
      [] s = "cold" -> <<"c", "o", "l", "d">>
      [] s = "hazardous" -> <<"h", "a", "z", "a", "r", "d", "o", "u", "s">>
      [] s = "chemical" -> <<"c", "h", "e", "m", "i", "c", "a", "l">>
      [] s = "flammable" -> <<"f", "l", "a", "m", "m", "a", "b", "l", "e">>
      [] s = "explosive" -> <<"e", "x", "p", "l", "o", "s", "i", "v", "e">>

\* String.prototype.toLowerCase
toLowerCase(chars) ==
    LET \* String.prototype.toLowerCase on one code unit (ASCII range).
        lowerCaseOf(c) ==
            CASE c = "A" -> "a"
              [] c = "B" -> "b"
              [] c = "C" -> "c"
              [] c = "D" -> "d"
              [] c = "E" -> "e"
              [] c = "F" -> "f"
              [] c = "G" -> "g"
              [] c = "H" -> "h"
              [] c = "I" -> "i"
              [] c = "J" -> "j"
              [] c = "K" -> "k"
              [] c = "L" -> "l"
              [] c = "M" -> "m"
              [] c = "N" -> "n"
              [] c = "O" -> "o"
              [] c = "P" -> "p"
              [] c = "Q" -> "q"
              [] c = "R" -> "r"
              [] c = "S" -> "s"
              [] c = "T" -> "t"
              [] c = "U" -> "u"
              [] c = "V" -> "v"
              [] c = "W" -> "w"
              [] c = "X" -> "x"
              [] c = "Y" -> "y"
              [] c = "Z" -> "z"
              [] OTHER -> c
    IN
    [i \in 1..Len(chars) |-> lowerCaseOf(chars[i])]

\* String.prototype.includes
includes(chars, k) ==
    \E i \in 0..(Len(chars) - Len(k)) : SubSeq(chars, i + 1, i + Len(k)) = k

FRAGILE_KEYWORDS == {"fragile", "paper", "glass", "ceramic", "electronics"}

REFRIGERATED_KEYWORDS == {"refrigerated", "frozen", "chilled", "cold"}

HAZARDOUS_KEYWORDS == {"hazardous", "chemical", "flammable", "explosive"}

\* The keywords of getFreightRiskRate that freightType.toLowerCase()
\* includes.
FreightKeywords(freightType) ==
    LET normalized == toLowerCase(Chars(freightType))
    IN  {k \in FRAGILE_KEYWORDS \cup REFRIGERATED_KEYWORDS
                   \cup HAZARDOUS_KEYWORDS : includes(normalized, Chars(k))}

\* The keyword sets tested in the order hazardous, refrigerated, fragile.
hazardousFirstRiskRate(freightType, costs) ==
    LET has == IF freightType \in {<<>>, <<"">>} THEN {}
               ELSE FreightKeywords(freightType[1])
    IN  IF has \cap HAZARDOUS_KEYWORDS # {}
        THEN costs["freight_risk_hazardous"]
        ELSE IF has \cap REFRIGERATED_KEYWORDS # {}
        THEN costs["freight_risk_refrigerated"]
        ELSE IF has \cap FRAGILE_KEYWORDS # {}
        THEN costs["freight_risk_fragile"]
        ELSE 0

\* freightType is <<>> when undefined, else <<description>>.
getFreightRiskRate(freightType, costs) ==
    LET has == IF freightType \in {<<>>, <<"">>} THEN {}
               ELSE FreightKeywords(freightType[1])
    IN  IF freightType \in {<<>>, <<"">>} THEN 0
        ELSE IF has \cap FRAGILE_KEYWORDS # {}
        THEN costs["freight_risk_fragile"]
        ELSE IF has \cap REFRIGERATED_KEYWORDS # {}
        THEN costs["freight_risk_refrigerated"]
        ELSE IF has \cap HAZARDOUS_KEYWORDS # {}
        THEN costs["freight_risk_hazardous"]
        ELSE 0

\* A rounding to the nearest thousand, Math.round in place of Math.ceil.
roundTo1000(value) == RoundDiv(value, 1000) * 1000

\* Math.ceil(value / 1000) * 1000
ceilTo1000(value) == CeilDiv(value, 1000) * 1000

calculateTier3(tier2Price, freightType, manualAdjustmentRate, costs) ==
    LET companyMarginRate == costs["company_margin_rate"]
        companyMargin == RoundDiv(tier2Price * companyMarginRate, 100)
        freightRiskRate == getFreightRiskRate(freightType, costs)
        freightRiskSurcharge == RoundDiv(tier2Price * freightRiskRate, 100)
        manualAdjustment == RoundDiv(tier2Price * manualAdjustmentRate, 100)
        subtotalBeforeRounding ==
            tier2Price + companyMargin + freightRiskSurcharge
                + manualAdjustment
    IN  [companyMarginRate |-> companyMarginRate,
         companyMargin |-> companyMargin,
         freightRiskRate |-> freightRiskRate,
         freightRiskSurcharge |-> freightRiskSurcharge,
         manualAdjustmentRate |-> manualAdjustmentRate,
         manualAdjustment |-> manualAdjustment,
         subtotalBeforeRounding |-> subtotalBeforeRounding,
         finalPrice |-> ceilTo1000(subtotalBeforeRounding)]

\* The overall confidence with Tier 2's own score as the market confidence,
\* whether or not market data was found.
overallFromTier2Score(distanceSource, tier2) ==
    RoundDiv(3 * (IF distanceSource = "lookup" THEN 100 ELSE 60)
                 + 7 * tier2.confidenceScore, 10)

\* The <<distConf, marketConf>> pairs (hundredths) at which the exact value
\* of (distConf * 0.3 + marketConf * 0.7) * 100 is k + 0.5 but the IEEE
\* double result lies just below it, so that Math.round gives k.
OVERALL_ROUNDS_DOWN ==
    {<<100, 35>>, <<100, 65>>, <<100, 95>>, <<60, 15>>, <<60, 35>>,
     <<60, 55>>, <<60, 75>>, <<60, 85>>}

computeOverallConfidence(distanceSource, tier2) ==
    LET distConf == IF distanceSource = "lookup" THEN 100 ELSE 60
        marketConf == IF tier2.hasMarketData THEN tier2.confidenceScore
                      ELSE 30
        exact == RoundDiv(3 * distConf + 7 * marketConf, 10)
    IN  IF <<distConf, marketConf>> \in OVERALL_ROUNDS_DOWN THEN exact - 1
        ELSE exact

\* The synchronous remainder of calculateFPHPrice once the cost variables
\* and the market result have been fetched.
assembleResult(input, costs, marketResult) ==
    LET manualAdjustmentRate ==
            IF HasField(input, "manualAdjustmentRate")
            THEN input.manualAdjustmentRate ELSE 0
        freightType ==
            IF HasField(input, "freightType") THEN <<input.freightType>>
            ELSE <<>>
        distance == getRouteDistance(input.origin, input.destination)
        tier1 == calculateTier1(distance, input.vehicleType, costs)
        tier2 == calculateTier2(tier1.subtotal, marketResult)
        tier3 == calculateTier3(tier2.adjustedPrice, freightType,
                                manualAdjustmentRate, costs)
        dataSources ==
            <<"CostMaster">>
            \o (IF tier2.hasMarketData THEN <<"MarketData (IQR)">> ELSE <<>>)
            \o (IF distance.source = "lookup"
                THEN <<"RouteDistance (lookup)">>
                ELSE <<"RouteDistance (haversine estimate)">>)
    IN  [input |-> input, tier1 |-> tier1, tier2 |-> tier2, tier3 |-> tier3,
         summary |->
            [tier1_base |-> tier1.subtotal,
             tier2_adjusted |-> tier2.adjustedPrice,
             tier3_final |-> tier3.finalPrice,
             overallConfidence |->
                 computeOverallConfidence(distance.source, tier2),
             dataSources |-> dataSources]]

\* calculateFPHPrice on a store whose rows do not change during the run.
calculateFPHPrice(input, costRows, marketRows) ==
    assembleResult(input, fetchCostVariables(costRows),
                   findMarketMedian(
                       findManyMarketData(marketRows, input.vehicleType),
                       input.origin, input.destination))

-----------------------------------------------------------------------------
(* The universe of locations, observations and requests *)

SeoulA == <<"Seoul", "A">>
SeoulB == <<"Seoul ", "B">>
BusanC == <<"Busan", "C">>
Seoul == <<"Seoul">>
Busan == <<"Busan">>
JejuJ == <<"Jeju", "J">>

Point(o, d, v, p) ==
    [origin |-> o, destination |-> d, vehicleType |-> v, unitPrice |-> p]

BoundedSeqs(S, n) == UNION {[1..k -> S] : k \in 0..n}

-----------------------------------------------------------------------------
(* The store and the server actions that change it *)

NoRows == [k \in {} |-> 0]

StoreEmpty ==
    /\ costMaster = NoRows
    /\ marketData = <<>>
    /\ routeStandard = {}
    /\ committed = <<>>

\* prisma/seed.ts: upserts the nine cost items (the values of COST_DEFAULTS).
SeedCostMaster ==
    /\ costMaster' = [k \in CostKeys |-> COST_DEFAULTS[k]]
    /\ UNCHANGED <<marketData, routeStandard, committed>>
    /\ UNCHANGED <<callVars, batchVars, harnessVars>>

\* updateCostMasterItem: prisma update throws when the row does not exist,
\* which the action catches (success: false) leaving the store as it was.
UpdateCostMasterItem ==
    \E e \in {<<"company_margin_rate", 10>>} :
        /\ costMaster' = IF e[1] \in DOMAIN costMaster
                         THEN [costMaster EXCEPT ![e[1]] = e[2]]
                         ELSE costMaster
        /\ UNCHANGED <<marketData, routeStandard, committed>>
        /\ UNCHANGED <<callVars, batchVars, harnessVars>>

MaxMarketRows == 7

UploadBatches ==
    { << Point(SeoulA, BusanC, "11t", 800000),
         Point(SeoulA, BusanC, "11t", 850000),
         Point(SeoulA, BusanC, "11t", 850000),
         Point(SeoulA, BusanC, "11t", 900000),
         Point(SeoulA, BusanC, "11t", 1200000) >>,
      << Point(SeoulB, BusanC, "11t", 900000),
         Point(SeoulB, BusanC, "11t", 800000) >> }

\* uploadMarketData: createMany of the parsed rows.
UploadMarketData ==
    \E batch \in UploadBatches :
        /\ Len(marketData) + Len(batch) <= MaxMarketRows
        /\ marketData' = marketData \o batch
        /\ UNCHANGED <<costMaster, routeStandard, committed>>
        /\ UNCHANGED <<callVars, batchVars, harnessVars>>

\* clearMarketData: deleteMany.
ClearMarketData ==
    /\ marketData' = <<>>
    /\ UNCHANGED <<costMaster, routeStandard, committed>>
    /\ UNCHANGED <<callVars, batchVars, harnessVars>>

-----------------------------------------------------------------------------
(* calculateAndSave, one step per await *)

Calls == {"c1", "c2"}

Pending == [status |-> "pending"]
Fulfilled(v) == [status |-> "fulfilled", value |-> v]
Rejected == [status |-> "rejected"]

CallsIdle ==
    /\ pc = [c \in Calls |-> "idle"]
    /\ callInput = [c \in Calls |-> Null]
    /\ callCosts = [c \in Calls |-> Null]
    /\ marketSeen = [c \in Calls |-> <<>>]
    /\ callResult = [c \in Calls |-> Null]
    /\ plan = [c \in Calls |-> "none"]
    /\ outcome = [c \in Calls |-> Pending]

CallCalculateAndSave(c) ==
    \E request \in
          { [origin |-> SeoulA, destination |-> BusanC, vehicleType |-> "11t",
             freightType |-> "General"],
            [origin |-> SeoulB, destination |-> BusanC, vehicleType |-> "11t",
             freightType |-> "Refrigerated", manualAdjustmentRate |-> -5] } :
        /\ pc[c] = "idle"
        /\ pc' = [pc EXCEPT ![c] = "costs"]
        /\ callInput' = [callInput EXCEPT ![c] = request]
        /\ UNCHANGED <<callCosts, marketSeen, callResult, plan, outcome>>
        /\ UNCHANGED <<storeVars, batchVars, harnessVars>>

\* A fetch that writes the defaults it filled in back to CostMaster.
FetchCostsAndSeed(c) ==
    /\ pc[c] = "costs"
    /\ pc' = [pc EXCEPT ![c] = "market"]
    /\ callCosts' = [callCosts EXCEPT ![c] = fetchCostVariables(costMaster)]
    /\ costMaster' = fetchCostVariables(costMaster)
    /\ UNCHANGED <<callInput, marketSeen, callResult, plan, outcome>>
    /\ UNCHANGED <<marketData, routeStandard, committed>>
    /\ UNCHANGED <<batchVars, harnessVars>>

\* const costs = await fetchCostVariables()
FetchCosts(c) ==
    /\ pc[c] = "costs"
    /\ pc' = [pc EXCEPT ![c] = "market"]
    /\ callCosts' = [callCosts EXCEPT ![c] = fetchCostVariables(costMaster)]
    /\ UNCHANGED <<callInput, marketSeen, callResult, plan, outcome>>
    /\ UNCHANGED <<storeVars, batchVars, harnessVars>>

\* await findMarketMedian(...), then Tier 2, Tier 3 and the summary.
FindMarket(c) ==
    LET allData == findManyMarketData(marketData, callInput[c].vehicleType)
        marketResult == findMarketMedian(allData, callInput[c].origin,
                                         callInput[c].destination)
    IN  /\ pc[c] = "market"
        /\ pc' = [pc EXCEPT ![c] = "upsert"]
        /\ marketSeen' = [marketSeen EXCEPT ![c] = allData]
        /\ callResult' = [callResult EXCEPT ![c] =
               assembleResult(callInput[c], callCosts[c], marketResult)]
        /\ UNCHANGED <<callInput, callCosts, plan, outcome>>
        /\ UNCHANGED <<storeVars, batchVars, harnessVars>>

\* RouteStandard rows with the key of this input.
rowsOfKey(rows, request) ==
    {r \in rows : /\ r.origin = request.origin
                  /\ r.destination = request.destination
                  /\ r.vehicleType = request.vehicleType}

\* The "create" argument of the upsert.
createRow(request, res) ==
    [origin |-> request.origin, destination |-> request.destination,
     vehicleType |-> request.vehicleType,
     basePrice |-> res.summary.tier1_base,
     marketAdjustedPrice |-> res.summary.tier2_adjusted,
     finalPrice |-> res.summary.tier3_final,
     confidenceScore |-> res.summary.overallConfidence]

\* An update that leaves finalPrice and confidenceScore as they were.
updatePricesOnly(row, res) ==
    [row EXCEPT !.basePrice = res.summary.tier1_base,
                !.marketAdjustedPrice = res.summary.tier2_adjusted]

\* The "update" argument of the upsert applied to an existing row.
updateRow(row, res) ==
    [row EXCEPT !.basePrice = res.summary.tier1_base,
                !.marketAdjustedPrice = res.summary.tier2_adjusted,
                !.finalPrice = res.summary.tier3_final,
                !.confidenceScore = res.summary.overallConfidence]

\* prisma.routeStandard.upsert, first half: look the row up by its key.
UpsertSelect(c) ==
    /\ pc[c] = "upsert"
    /\ pc' = [pc EXCEPT ![c] = "write"]
    /\ plan' = [plan EXCEPT ![c] =
           IF rowsOfKey(routeStandard, callInput[c]) = {} THEN "create"
           ELSE "update"]
    /\ UNCHANGED <<callInput, callCosts, marketSeen, callResult, outcome>>
    /\ UNCHANGED <<storeVars, batchVars, harnessVars>>

Commit(c, rows) ==
    /\ routeStandard' = rows
    /\ committed' = Append(committed, c)
    /\ pc' = [pc EXCEPT ![c] = "returned"]
    /\ outcome' = [outcome EXCEPT ![c] = Fulfilled(callResult[c])]

Reject(c) ==
    /\ pc' = [pc EXCEPT ![c] = "thrown"]
    /\ outcome' = [outcome EXCEPT ![c] = Rejected]
    /\ UNCHANGED <<routeStandard, committed>>

\* Second half: update the row found, or insert a new one.  When another
\* call inserted the key in between, the UNIQUE index
\* RouteStandard_origin_destination_vehicleType_key either turns the insert
\* into an update (INSERT ... ON CONFLICT DO UPDATE) or fails it.  On
\* success calculateAndSave returns result.
UpsertWrite(c) ==
    LET existing == rowsOfKey(routeStandard, callInput[c])
        updated == (routeStandard \ existing)
                   \cup {updateRow(r, callResult[c]) : r \in existing}
    IN  /\ pc[c] = "write"
        /\ \/ /\ plan[c] = "update"
              /\ Commit(c, updated)
           \/ /\ plan[c] = "create"
              /\ existing = {}
              /\ Commit(c, routeStandard
                              \cup {createRow(callInput[c], callResult[c])})
           \/ /\ plan[c] = "create"
              /\ existing # {}
              /\ Commit(c, updated)
           \/ /\ plan[c] = "create"
              /\ existing # {}
              /\ Reject(c)
        /\ UNCHANGED <<callInput, callCosts, marketSeen, callResult, plan>>
        /\ UNCHANGED <<costMaster, marketData>>
        /\ UNCHANGED <<batchVars, harnessVars>>

\* A prisma call fails (the database is unavailable, locked, ...): the
\* awaiting calculateAndSave has no try/catch, so its promise rejects.
DbFails(c) ==
    /\ pc[c] \in {"costs", "market", "upsert", "write"}
    /\ Reject(c)
    /\ UNCHANGED <<callInput, callCosts, marketSeen, callResult, plan>>
    /\ UNCHANGED <<costMaster, marketData>>
    /\ UNCHANGED <<batchVars, harnessVars>>

-----------------------------------------------------------------------------
(* The main specification: the store and concurrent calculateAndSave *)

BatchIdle ==
    /\ batchInputs = <<>>
    /\ batchIndex = 0
    /\ batchResults = <<>>
    /\ batchErrors = <<>>
    /\ batchPc = "idle"

HarnessIdle == fnArgs = Null /\ fnValue = NotCalled

Init == StoreEmpty /\ CallsIdle /\ BatchIdle /\ HarnessIdle

Next ==
    \/ SeedCostMaster
    \/ UpdateCostMasterItem
    \/ UploadMarketData
    \/ ClearMarketData
    \/ \E c \in Calls : CallCalculateAndSave(c)
    \/ \E c \in Calls : FetchCosts(c)
    \/ \E c \in Calls : FindMarket(c)
    \/ \E c \in Calls : UpsertSelect(c)
    \/ \E c \in Calls : UpsertWrite(c)
    \/ \E c \in Calls : DbFails(c)


Spec == Init /\ [][Next]_vars

-----------------------------------------------------------------------------
(* runBatchSimulation: src/unnamed/part_005 *)

MaxBatch == 3

\* The rows of an inputs array (typed any[]): a well-formed request, an
\* object without origin, a null entry and a number.
NullRow == [jsType |-> "null"]
NumberRow == [jsType |-> "number"]

\* Reading a property of null throws a TypeError; of a number gives
\* undefined.
IsNullish(row) == row = NullRow

\* calculateFPHPrice(row) throws: destructuring null,
\* extractProvince(undefined) calling split on undefined, or
\* getRouteDistance throwing.
pricingThrows(row) ==
    IF IsNullish(row) \/ ~HasField(row, "origin")
          \/ ~HasField(row, "destination")
    THEN TRUE
    ELSE getRouteDistance(row.origin, row.destination) = TypeError

\* The label with its two parts exchanged.
reversedLabel(row) ==
    <<IF HasField(row, "destination") THEN row.destination ELSE <<"?">>,
      IF HasField(row, "origin") THEN row.origin ELSE <<"?">>>>

\* `${input.origin ?? "?"} -> ${input.destination ?? "?"}`, as the pair of
\* its two parts.
routeLabel(row) ==
    <<IF HasField(row, "origin") THEN row.origin ELSE <<"?">>,
      IF HasField(row, "destination") THEN row.destination ELSE <<"?">>>>

\* JSON.parse(JSON.stringify(result)): an FPHResult holds only finite
\* numbers, strings, booleans, null, arrays and plain objects without
\* undefined-valued properties (an absent optional field of input is absent
\* from the record), all of which the round trip reproduces.
jsonRoundTrip(res) == res

InitBatch ==
    LET BatchRowUniverse ==
            { [origin |-> SeoulA, destination |-> BusanC, vehicleType |-> "11t",
               freightType |-> "General"],
              [origin |-> JejuJ, destination |-> SeoulA, vehicleType |-> "11t"],
              [destination |-> BusanC, vehicleType |-> "11t"],
              NullRow,
              NumberRow }
    IN
    /\ costMaster = NoRows
    /\ marketData \in {<<>>} \cup UploadBatches
    /\ routeStandard = {}
    /\ committed = <<>>
    /\ CallsIdle
    /\ HarnessIdle
    /\ batchInputs \in BoundedSeqs(BatchRowUniverse, MaxBatch)
    /\ batchIndex = 0
    /\ batchResults = <<>>
    /\ batchErrors = <<>>
    /\ batchPc = "running"

\* One iteration of the for loop; dbOk is whether the prisma reads of the
\* pricing run succeed.
BatchIteration ==
    \E dbOk \in BOOLEAN :
        LET row == batchInputs[batchIndex + 1]
            failed == pricingThrows(row) \/ ~dbOk
        IN  /\ batchPc = "running"
            /\ batchIndex < Len(batchInputs)
            /\ \/ /\ ~failed
                  /\ batchResults' = Append(batchResults,
                         jsonRoundTrip(
                             calculateFPHPrice(row, costMaster, marketData)))
                  /\ batchIndex' = batchIndex + 1
                  /\ UNCHANGED <<batchErrors, batchPc>>
               \/ /\ failed
                  /\ ~IsNullish(row)
                  /\ batchErrors' = Append(batchErrors,
                         [index |-> batchIndex, route |-> routeLabel(row),
                          message |-> IF pricingThrows(row) THEN "TypeError"
                                      ELSE "database error"])
                  /\ batchIndex' = batchIndex + 1
                  /\ UNCHANGED <<batchResults, batchPc>>
               \/ /\ failed
                  /\ IsNullish(row)
                  /\ batchPc' = "thrown"
                  /\ UNCHANGED <<batchResults, batchErrors, batchIndex>>
            /\ UNCHANGED <<batchInputs, storeVars>>
            /\ UNCHANGED <<callVars, harnessVars>>

BatchReturn ==
    /\ batchPc = "running"
    /\ batchIndex = Len(batchInputs)
    /\ batchPc' = "returned"
    /\ UNCHANGED <<batchInputs, batchIndex, batchResults, batchErrors>>
    /\ UNCHANGED <<storeVars, callVars, harnessVars>>

NextBatch == BatchIteration \/ BatchReturn \/ ClearMarketData

SpecBatch == InitBatch /\ [][NextBatch]_vars

-----------------------------------------------------------------------------
(* Analyzer harness: analyzeMarketData applied to every bounded list *)

MaxPoints == 6

InitAnalyze ==
    LET PointUniverse ==
            { Point(SeoulA, BusanC, "11t", 800000),
              Point(SeoulA, BusanC, "11t", 1200000),
              Point(SeoulB, BusanC, "11t", 900000),
              Point(Seoul, Busan, "11t", 800000),
              Point(SeoulA, BusanC, "5t", 800000) }
    IN
    /\ StoreEmpty /\ CallsIdle /\ BatchIdle
    /\ fnArgs \in BoundedSeqs(PointUniverse, MaxPoints)
    /\ fnValue = NotCalled

Analyze ==
    /\ fnValue = NotCalled
    /\ fnValue' = Returned(analyzeMarketData(fnArgs))
    /\ UNCHANGED <<fnArgs, storeVars, callVars, batchVars>>

SpecAnalyze == InitAnalyze /\ [][Analyze]_vars

-----------------------------------------------------------------------------
(* Tier 3 harness: calculateTier3 applied to bounded arguments *)

InitTier3 ==
    LET Tier3Prices ==
            {0, 1, 499, 500, 501, 999, 1000, 1001, 393546, 787037}
            \cup (849995..850005)
        Tier3Rates == {0, 8, 15, 100}
        Tier3ManualRates == {-200, -100, -8, -5, 0, 5}
        Tier3FreightTypes == {<<>>, <<"General">>, <<"Refrigerated">>}
    IN
    /\ StoreEmpty /\ CallsIdle /\ BatchIdle
    /\ fnArgs \in
          [tier2Price : Tier3Prices, freightType : Tier3FreightTypes,
           manualAdjustmentRate : Tier3ManualRates,
           companyMarginRate : Tier3Rates, riskRate : Tier3Rates]
    /\ fnValue = NotCalled

ApplyTier3 ==
    LET \* The cost variables of a Tier 3 call: the defaults with the drawn rates.
        tier3Costs(in) ==
            [COST_DEFAULTS EXCEPT !["company_margin_rate"] = in.companyMarginRate,
                                  !["freight_risk_refrigerated"] = in.riskRate]
    IN
    /\ fnValue = NotCalled
    /\ fnValue' = Returned(calculateTier3(fnArgs.tier2Price,
                       fnArgs.freightType, fnArgs.manualAdjustmentRate,
                       tier3Costs(fnArgs)))
    /\ UNCHANGED <<fnArgs, storeVars, callVars, batchVars>>

SpecTier3 == InitTier3 /\ [][ApplyTier3]_vars

-----------------------------------------------------------------------------
(* Confidence harness: computeConfidence applied to bounded arguments *)

MaxValues == 3

InitConfidence ==
    LET \* Sample sizes around the thresholds of the size factor (30 caps it).
        ConfidenceSampleSizes == {0, 1, 4, 5, 29, 30, 31, 50}
        \* Filtered values: negative, zero and positive, so that lists of zero and
        \* of negative mean occur.
        ConfidenceValues == {-2, 0, 1, 3}
    IN
    /\ StoreEmpty /\ CallsIdle /\ BatchIdle
    /\ fnArgs \in
          [sampleSize : ConfidenceSampleSizes,
           filteredValues : BoundedSeqs(ConfidenceValues, MaxValues),
           isFallback : BOOLEAN]
    /\ fnValue = NotCalled

ApplyConfidence ==
    /\ fnValue = NotCalled
    /\ fnValue' = Returned(computeConfidence(fnArgs.sampleSize,
                             fnArgs.filteredValues,
                             fnArgs.isFallback))
    /\ UNCHANGED <<fnArgs, storeVars, callVars, batchVars>>

SpecConfidence == InitConfidence /\ [][ApplyConfidence]_vars

-----------------------------------------------------------------------------
(* Distance harness: getRouteDistance applied to every pair of locations *)

InitDistance ==
    LET \* Every province with a centroid as a bare name, locations with a district
        \* and with padding, unknown provinces, the empty string and names that
        \* every JavaScript object inherits.
        LocationUniverse ==
            {<<p>> : p \in PROVINCE_COORDS}
            \cup {SeoulA, SeoulB, BusanC, JejuJ, <<"Atlantis">>, <<"Atlantis", "X">>,
                  <<"Narnia">>, <<"">>, <<"constructor">>, <<"toString", "X">>}
    IN
    /\ StoreEmpty /\ CallsIdle /\ BatchIdle
    /\ fnArgs \in [origin : LocationUniverse, destination : LocationUniverse]
    /\ fnValue = NotCalled

\* The value is TypeError when the call threw.
ResolveDistance ==
    /\ fnValue = NotCalled
    /\ fnValue' = Returned(getRouteDistance(fnArgs.origin,
                                            fnArgs.destination))
    /\ UNCHANGED <<fnArgs, storeVars, callVars, batchVars>>

SpecDistance == InitDistance /\ [][ResolveDistance]_vars

-----------------------------------------------------------------------------
(* The cost-variable store: every server action that changes CostMaster,   *)
(* and pricing runs reading it                                             *)

\* <<item, value>> rows an administrator can submit: the server actions and
\* parseCostMasterCsv accept any number as a value.
CostRowUniverse ==
    {<<"fuel_efficiency", 0>>, <<"fuel_efficiency", 50>>,
     <<"fuel_price", 1700>>}

\* prisma.costMaster.upsert({ where: { item }, update, create }).
upsertCost(rows, row) ==
    [k \in DOMAIN rows \cup {row[1]} |->
        IF k = row[1] THEN row[2] ELSE rows[k]]

RECURSIVE upsertCosts(_, _)
upsertCosts(rows, data) ==
    IF data = <<>> THEN rows
    ELSE upsertCosts(upsertCost(rows, Head(data)), Tail(data))

MaxCostRows == 2

\* uploadCostMaster: upserts every row parseCostMasterCsv accepted (none
\* when the file had no acceptable row).
UploadCostMaster ==
    \E data \in BoundedSeqs(CostRowUniverse, MaxCostRows) :
        /\ costMaster' = upsertCosts(costMaster, data)
        /\ UNCHANGED <<marketData, routeStandard, committed>>
        /\ UNCHANGED <<callVars, batchVars, harnessVars>>

\* createCostMasterItem: prisma create fails on the UNIQUE item index when
\* the item exists, which the action catches (success: false).
CreateCostMasterItem ==
    \E row \in CostRowUniverse :
        /\ costMaster' = IF row[1] \in DOMAIN costMaster THEN costMaster
                         ELSE upsertCost(costMaster, row)
        /\ UNCHANGED <<marketData, routeStandard, committed>>
        /\ UNCHANGED <<callVars, batchVars, harnessVars>>

\* updateCostMasterItem with any row of the cost universe.
UpdateCostMasterValue ==
    \E row \in CostRowUniverse :
        /\ costMaster' = IF row[1] \in DOMAIN costMaster
                         THEN [costMaster EXCEPT ![row[1]] = row[2]]
                         ELSE costMaster
        /\ UNCHANGED <<marketData, routeStandard, committed>>
        /\ UNCHANGED <<callVars, batchVars, harnessVars>>

\* deleteCostMasterItem: prisma delete fails when the row does not exist,
\* which the action catches.
DeleteCostMasterItem ==
    \E item \in {"fuel_efficiency", "fuel_price"} :
        /\ costMaster' = [k \in DOMAIN costMaster \ {item} |-> costMaster[k]]
        /\ UNCHANGED <<marketData, routeStandard, committed>>
        /\ UNCHANGED <<callVars, batchVars, harnessVars>>

\* A pricing run up to Tier 1 over the current CostMaster rows, for a
\* Seoul-Busan request (325 km): the efficiency it divides by and its
\* Tier1Breakdown.
PriceTier1 ==
    \E vehicleType \in {"11t", "40t"} :
        LET costs == fetchCostVariables(costMaster)
        IN  /\ fnArgs' = [vehicleType |-> vehicleType, costs |-> costs]
            /\ fnValue' = Returned(
                   [efficiency |->
                        getEfficiency(vehicleType, costs["fuel_efficiency"]),
                    tier1 |->
                        calculateTier1(getRouteDistance(SeoulA, BusanC),
                                       vehicleType, costs)])
            /\ UNCHANGED <<storeVars, callVars, batchVars>>

NextCosts ==
    \/ SeedCostMaster
    \/ UploadCostMaster
    \/ CreateCostMasterItem
    \/ UpdateCostMasterValue
    \/ DeleteCostMasterItem
    \/ PriceTier1

SpecCosts == Init /\ [][NextCosts]_vars

-----------------------------------------------------------------------------
(* CSV import: src/src/lib/csv-parser.ts, parsing section.  A file is the  *)
(* list parseCsvLines returns: its non-blank lines, each the list of its   *)
(* trimmed cells.                                                          *)

\* normalizeHeader (lower case, letters and digits only) on the header
\* cells of the module's universe; the others are already normalized.
normalizeHeader(header) ==
    CASE header = "Date" -> "date"
      [] header = "Departure" -> "departure"
      [] header = "Arrival" -> "arrival"
      [] header = "vehicleType" -> "vehicletype"
      [] header = "Ton Type" -> "tontype"
      [] header = "freightType" -> "freighttype"
      [] header = "Cargo-Type" -> "cargotype"
      [] header = "unitPrice" -> "unitprice"
      [] header = "Fare" -> "fare"
      [] header = "Type" -> "type"
      [] header = "Name" -> "name"
      [] header = "Value" -> "value"
      [] header = "Unit" -> "unit"
      [] header = "Note" -> "note"
      [] OTHER -> header

MARKET_DATA_HEADERS ==
    [h \in {"date", "origin", "departure", "destination", "arrival",
            "vehicletype", "vehicle", "tontype", "freighttype", "freight",
            "cargotype", "unitprice", "price", "amount", "fare"} |->
        CASE h = "date" -> "date"
          [] h \in {"origin", "departure"} -> "origin"
          [] h \in {"destination", "arrival"} -> "destination"
          [] h \in {"vehicletype", "vehicle", "tontype"} -> "vehicleType"
          [] h \in {"freighttype", "freight", "cargotype"} -> "freightType"
          [] h \in {"unitprice", "price", "amount", "fare"} -> "unitPrice"]

COST_MASTER_HEADERS ==
    [h \in {"category", "type", "item", "name", "key", "value", "amount",
            "unit", "description", "desc", "note"} |->
        CASE h \in {"category", "type"} -> "category"
          [] h \in {"item", "name", "key"} -> "item"
          [] h \in {"value", "amount"} -> "value"
          [] h = "unit" -> "unit"
          [] h \in {"description", "desc", "note"} -> "description"]

\* mapHeaders: columnMap as field -> index of the first column mapped to it
\* (a later column of a field already found is skipped), and the required
\* fields not found.
mapHeaders(rawHeaders, mapping, requiredFields) ==
    LET Maps(i, f) ==
            /\ normalizeHeader(rawHeaders[i]) \in DOMAIN mapping
            /\ mapping[normalizeHeader(rawHeaders[i])] = f
        foundFields ==
            {f \in requiredFields : \E i \in 1..Len(rawHeaders) : Maps(i, f)}
    IN  [columnMap |->
            [f \in foundFields |->
                CHOOSE i \in 1..Len(rawHeaders) :
                    /\ Maps(i, f)
                    /\ \A j \in 1..(i - 1) : ~Maps(j, f)],
         missingFields |-> requiredFields \ foundFields]

\* fields[colIdx]?.trim() ?? ""
cellAt(fields, colIdx) == IF colIdx <= Len(fields) THEN fields[colIdx] ELSE ""

\* parseFloat(val.replace(/,/g, "")) on the cells of the module's universe:
\* the number a cell starts with, whatever follows it; NaN when it starts
\* with none.
parseFloat(val) ==
    CASE val = "850000" -> 850000
      [] val = "1,200,000" -> 1200000
      [] val = "850000 KRW" -> 850000
      [] val = "1650" -> 1650
      [] val = "0" -> 0
      [] val = "-5" -> -5
      [] OTHER -> NaN

\* !isNaN(new Date(val).getTime()) on the cells of the module's universe.
dateParses(val) == val \in {"2024-01-15", "2024/01/15"}

\* A whole-file error (no row number) and the error of a row.
FileError(message) == [row |-> 0, message |-> message]
RowError(rowNum, message) == [row |-> rowNum, message |-> message]

MarketFields ==
    {"date", "origin", "destination", "vehicleType", "freightType",
     "unitPrice"}

CostFields == {"category", "item", "value", "unit", "description"}

\* The row object built from the cells of one line.
buildRow(columnMap, fields, numberField) ==
    [f \in DOMAIN columnMap |->
        IF f = numberField THEN parseFloat(cellAt(fields, columnMap[f]))
        ELSE cellAt(fields, columnMap[f])]

\* A validation of market rows that does not look at the price.
marketRowErrorWithoutPrice(row) ==
    IF row["date"] = "" \/ ~dateParses(row["date"]) THEN <<"Invalid date">>
    ELSE IF row["origin"] = "" \/ row["destination"] = ""
    THEN <<"Missing origin or destination">>
    ELSE IF row["vehicleType"] = "" THEN <<"Missing vehicleType">>
    ELSE <<>>

\* The validation of parseMarketDataCsv: the first failing check, if any.
marketRowError(row) ==
    IF row["date"] = "" \/ ~dateParses(row["date"]) THEN <<"Invalid date">>
    ELSE IF row["origin"] = "" \/ row["destination"] = ""
    THEN <<"Missing origin or destination">>
    ELSE IF row["vehicleType"] = "" THEN <<"Missing vehicleType">>
    ELSE IF row["unitPrice"] = NaN \/ row["unitPrice"] <= 0
    THEN <<"Invalid unitPrice">>
    ELSE <<>>

\* The validation of parseCostMasterCsv.
costRowError(row) ==
    LET validCategories == {"Variable", "Fixed", "Policy", "Risk"}
    IN
    IF row["category"] = "" \/ row["category"] \notin validCategories
    THEN <<"Invalid category">>
    ELSE IF row["item"] = "" THEN <<"Missing item name">>
    ELSE IF row["value"] = NaN THEN <<"Invalid value">>
    ELSE IF row["unit"] = "" THEN <<"Missing unit">>
    ELSE <<>>

\* dataRows.forEach: the rows pushed to data and the errors pushed, given
\* the error (or none) of each built row.
RECURSIVE collectRows(_, _, _, _)
collectRows(rows, rowErrors, idx, acc) ==
    IF idx > Len(rows) THEN acc
    ELSE collectRows(rows, rowErrors, idx + 1,
             IF rowErrors[idx] = <<>>
             THEN [acc EXCEPT !.data = Append(@, rows[idx])]
             ELSE [acc EXCEPT !.errors =
                      Append(@, RowError(idx + 1, rowErrors[idx][1]))])

parseMarketDataCsv(lines) ==
    IF Len(lines) < 2
    THEN [data |-> <<>>, errors |-> <<FileError("empty")>>, totalRows |-> 0]
    ELSE LET headers == mapHeaders(lines[1], MARKET_DATA_HEADERS, MarketFields)
             dataRows == Tail(lines)
             rows == [i \in 1..Len(dataRows) |->
                        buildRow(headers.columnMap, dataRows[i], "unitPrice")]
         IN  IF headers.missingFields # {}
             THEN [data |-> <<>>, errors |-> <<FileError("missing columns")>>,
                   totalRows |-> 0]
             ELSE collectRows(rows,
                      [i \in 1..Len(rows) |-> marketRowError(rows[i])], 1,
                      [data |-> <<>>, errors |-> <<>>,
                       totalRows |-> Len(dataRows)])

parseCostMasterCsv(lines) ==
    IF Len(lines) < 2
    THEN [data |-> <<>>, errors |-> <<FileError("empty")>>, totalRows |-> 0]
    ELSE LET headers == mapHeaders(lines[1], COST_MASTER_HEADERS, CostFields)
             dataRows == Tail(lines)
             rows == [i \in 1..Len(dataRows) |->
                        buildRow(headers.columnMap, dataRows[i], "value")]
         IN  IF headers.missingFields # {}
             THEN [data |-> <<>>, errors |-> <<FileError("missing columns")>>,
                   totalRows |-> 0]
             ELSE collectRows(rows,
                      [i \in 1..Len(rows) |-> costRowError(rows[i])], 1,
                      [data |-> <<>>, errors |-> <<>>,
                       totalRows |-> Len(dataRows)])

-----------------------------------------------------------------------------
(* The import actions with their results: src/unnamed/part_002.  fnArgs    *)
(* holds what the call met (the parse result of its file, null for a       *)
(* missing file, and which of its database calls threw, 0 for none),       *)
(* fnValue the UploadResult it returned (success, importedCount,           *)
(* errorCount, errors; the analysis summary of a successful MarketData     *)
(* import is left out).  One call per behaviour.                           *)

CHUNK_SIZE == 500

MaxUploadRows == 2

\* uploadMarketData.  The records go to createMany in chunks of CHUNK_SIZE,
\* each chunk one statement; then findMany reads the table for the
\* analysis.  failAt = k in 1..chunks: the createMany of chunk k throws;
\* failAt = chunks + 1: the findMany throws.  The catch returns the
\* "Database error" result; nothing is rolled back.
ImportMarketData ==
    LET Accepted ==
            BoundedSeqs({ Point(SeoulA, BusanC, "11t", 800000),
                          Point(SeoulB, BusanC, "11t", 900000) }, MaxUploadRows)
            \cup {[i \in 1..(CHUNK_SIZE + 1) |->
                      Point(SeoulA, BusanC, "11t", 800000)]}
        \* Rejected rows: around the slice limits 10 and 20.
        RejectedRows ==
            {[i \in 1..e |-> RowError(i + 1, "invalid row")] :
                e \in {0, 1, 10, 11, 20, 21}}
        Parsed == {f \in [data : Accepted, errors : RejectedRows] :
                      Len(f.data) + Len(f.errors) >= 1}
    IN
    /\ fnValue = NotCalled
    /\ \E file \in {Null} \cup Parsed :
       \E failAt \in 0..3 :
          /\ fnArgs' = [action |-> "uploadMarketData", parsed |-> file,
                        failAt |-> failAt]
          /\ IF file = Null
             THEN /\ failAt = 0
                  /\ fnValue' = Returned(
                         [success |-> FALSE, importedCount |-> 0,
                          errorCount |-> 0,
                          errors |-> <<FileError("No file provided.")>>])
                  /\ UNCHANGED marketData
             ELSE IF Len(file.errors) > 0 /\ Len(file.data) = 0
             THEN /\ failAt = 0
                  /\ fnValue' = Returned(
                         [success |-> FALSE, importedCount |-> 0,
                          errorCount |-> Len(file.errors),
                          errors |-> SubSeq(file.errors, 1,
                                            Min(20, Len(file.errors)))])
                  /\ UNCHANGED marketData
             ELSE LET records == file.data
                      chunks == CeilDiv(Len(records), CHUNK_SIZE)
                      inserted ==
                          IF failAt = 0 THEN Len(records)
                          ELSE Min((failAt - 1) * CHUNK_SIZE, Len(records))
                  IN  /\ failAt <= chunks + 1
                      /\ marketData' = marketData \o SubSeq(records, 1, inserted)
                      /\ fnValue' = Returned(
                             IF failAt = 0
                             THEN [success |-> TRUE,
                                   importedCount |-> Len(file.data),
                                   errorCount |-> Len(file.errors),
                                   errors |-> SubSeq(file.errors, 1,
                                                 Min(10, Len(file.errors)))]
                             ELSE [success |-> FALSE, importedCount |-> 0,
                                   errorCount |-> 1,
                                   errors |-> <<FileError("Database error")>>])
    /\ UNCHANGED <<costMaster, routeStandard, committed>>
    /\ UNCHANGED <<callVars, batchVars>>

\* uploadCostMaster.  One upsert per accepted row, each its own statement.
\* failAt = k in 1..rows: the k-th upsert throws, after k - 1 were written.
ImportCostMaster ==
    LET RejectedRows ==
            {[i \in 1..e |-> RowError(i + 1, "invalid row")] :
                e \in {0, 1, 10, 11, 20, 21}}
        Parsed == {f \in [data : BoundedSeqs(CostRowUniverse, MaxCostRows),
                          errors : RejectedRows] :
                      Len(f.data) + Len(f.errors) >= 1}
    IN
    /\ fnValue = NotCalled
    /\ \E file \in {Null} \cup Parsed :
       \E failAt \in 0..MaxCostRows :
          /\ fnArgs' = [action |-> "uploadCostMaster", parsed |-> file,
                        failAt |-> failAt]
          /\ IF file = Null
             THEN /\ failAt = 0
                  /\ fnValue' = Returned(
                         [success |-> FALSE, importedCount |-> 0,
                          errorCount |-> 0,
                          errors |-> <<FileError("No file provided.")>>])
                  /\ UNCHANGED costMaster
             ELSE IF Len(file.errors) > 0 /\ Len(file.data) = 0
             THEN /\ failAt = 0
                  /\ fnValue' = Returned(
                         [success |-> FALSE, importedCount |-> 0,
                          errorCount |-> Len(file.errors),
                          errors |-> SubSeq(file.errors, 1,
                                            Min(20, Len(file.errors)))])
                  /\ UNCHANGED costMaster
             ELSE LET upsertedCount ==
                          IF failAt = 0 THEN Len(file.data) ELSE failAt - 1
                  IN  /\ failAt <= Len(file.data)
                      /\ costMaster' =
                             upsertCosts(costMaster,
                                         SubSeq(file.data, 1, upsertedCount))
                      /\ fnValue' = Returned(
                             IF failAt = 0
                             THEN [success |-> TRUE,
                                   importedCount |-> upsertedCount,
                                   errorCount |-> Len(file.errors),
                                   errors |-> SubSeq(file.errors, 1,
                                                 Min(10, Len(file.errors)))]
                             ELSE [success |-> FALSE, importedCount |-> 0,
                                   errorCount |-> 1,
                                   errors |-> <<FileError("Database error")>>])
    /\ UNCHANGED <<marketData, routeStandard, committed>>
    /\ UNCHANGED <<callVars, batchVars>>

NextUpload ==
    \/ ImportMarketData
    \/ ImportCostMaster

SpecUpload == Init /\ [][NextUpload]_vars

-----------------------------------------------------------------------------
(* Tier 1 harness: calculateTier1 applied to bounded arguments *)

InitTier1 ==
    LET \* Distances of each branch of getRouteDistance.
        Tier1Distances ==
            {[distanceKm |-> 30, source |-> "lookup"],
             [distanceKm |-> 325, source |-> "lookup"],
             [distanceKm |-> 443, source |-> "haversine"],
             [distanceKm |-> 200, source |-> "haversine"]}
        \* Vehicle types of the table, unrecognized ones and an inherited name.
        Tier1VehicleTypes == {"11t", "1t", "18t", "25t", "40t", "", "constructor"}
        Tier1Costs ==
            {[COST_DEFAULTS EXCEPT !["fuel_efficiency"] = e, !["fuel_price"] = p,
                                   !["toll_rate"] = r, !["driver_profit_rate"] = d] :
                e \in {35, 40, 28}, p \in {1650, 1700}, r \in {120, 0},
                d \in {15, 0}}
    IN
    /\ StoreEmpty /\ CallsIdle /\ BatchIdle
    /\ fnArgs \in [distance : Tier1Distances, vehicleType : Tier1VehicleTypes,
                    costs : Tier1Costs]
    /\ fnValue = NotCalled

ApplyTier1 ==
    /\ fnValue = NotCalled
    /\ fnValue' = Returned(calculateTier1(fnArgs.distance, fnArgs.vehicleType,
                                          fnArgs.costs))
    /\ UNCHANGED <<fnArgs, storeVars, callVars, batchVars>>

SpecTier1 == InitTier1 /\ [][ApplyTier1]_vars

-----------------------------------------------------------------------------
(* Freight risk harness: getFreightRiskRate applied to bounded arguments *)

InitFreight ==
    LET \* Cargo descriptions: absent, empty, "General", single keywords in either
        \* case, two keywords of different sets, keywords inside longer words and
        \* descriptions without a keyword.
        FreightTypeUniverse ==
            {<<>>, <<"">>, <<"General">>, <<"Refrigerated">>, <<"Fragile">>,
             <<"HAZARDOUS chemical">>, <<"Frozen glass">>, <<"Cold paper">>,
             <<"Flammable frozen">>, <<"Explosive ceramic">>, <<"Newspapers">>,
             <<"Scolded">>, <<"ELECTRONICS">>, <<"Chilled">>, <<"Steel coil">>,
             <<"Glas">>}
        \* The default rates and rates an operator has edited.
        FreightCosts ==
            {[COST_DEFAULTS EXCEPT !["freight_risk_fragile"] = f,
                                   !["freight_risk_refrigerated"] = r,
                                   !["freight_risk_hazardous"] = h] :
                f \in {12, 5}, r \in {15, 0}, h \in {20}}
    IN
    /\ StoreEmpty /\ CallsIdle /\ BatchIdle
    /\ fnArgs \in [freightType : FreightTypeUniverse, costs : FreightCosts]
    /\ fnValue = NotCalled

ApplyFreightRisk ==
    /\ fnValue = NotCalled
    /\ fnValue' = Returned(getFreightRiskRate(fnArgs.freightType,
                                              fnArgs.costs))
    /\ UNCHANGED <<fnArgs, storeVars, callVars, batchVars>>

SpecFreight == InitFreight /\ [][ApplyFreightRisk]_vars

-----------------------------------------------------------------------------
(* Overall confidence harness: computeOverallConfidence applied to the
   distance sources and to Tier 2 breakdowns of every confidence score *)

InitOverall ==
    LET OverallDistanceSources == {"lookup", "haversine"}
        \* Tier 2 breakdowns: the pass-through one and blends at every score a
        \* market result can carry (hundredths), direct and fallback.
        OverallTier2s ==
            {passThroughTier2(393546)}
            \cup {calculateTier2(393546,
                      [median |-> 850000, sampleSize |-> 5, confidenceScore |-> c,
                       isFallback |-> f]) : c \in 0..100, f \in BOOLEAN}
    IN
    /\ StoreEmpty /\ CallsIdle /\ BatchIdle
    /\ fnArgs \in [distanceSource : OverallDistanceSources,
                    tier2 : OverallTier2s]
    /\ fnValue = NotCalled

ApplyOverallConfidence ==
    /\ fnValue = NotCalled
    /\ fnValue' = Returned(computeOverallConfidence(fnArgs.distanceSource,
                                                    fnArgs.tier2))
    /\ UNCHANGED <<fnArgs, storeVars, callVars, batchVars>>

SpecOverall == InitOverall /\ [][ApplyOverallConfidence]_vars

-----------------------------------------------------------------------------
(* Tier 2 harness: calculateTier2 applied to bounded arguments *)

InitTier2 ==
    LET \* Tier 1 subtotals: the documented one, 0, values above and below
        \* the medians, the subtotal of a negative fixed cost, and those of
        \* an efficiency that is not a number or is 0.
        Tier1Bases ==
            {0, 1, 393546, 850000, 1000001, -2078954, NaN, PosInfinity}
        \* Market results at the ends and inside of the confidence range.
        MarketResults ==
            [median : {300000, 850000, 850001}, sampleSize : {2, 5},
             confidenceScore : {0, 1, 29, 35, 50, 99, 100},
             isFallback : BOOLEAN]
    IN
    /\ StoreEmpty /\ CallsIdle /\ BatchIdle
    /\ fnArgs \in [tier1Base : Tier1Bases,
                    marketResult : {Null} \cup MarketResults]
    /\ fnValue = NotCalled

ApplyTier2 ==
    /\ fnValue = NotCalled
    /\ fnValue' = Returned(calculateTier2(fnArgs.tier1Base,
                                          fnArgs.marketResult))
    /\ UNCHANGED <<fnArgs, storeVars, callVars, batchVars>>

SpecTier2 == InitTier2 /\ [][ApplyTier2]_vars

-----------------------------------------------------------------------------
(* Market harness: calculateFPHPrice over every bounded MarketData table *)

MaxStoreRows == 5

\* The MarketData rows in the order findMany returns them, and the request.
InitMarket ==
    LET StoredPoints ==
            { Point(SeoulA, BusanC, "11t", 800000),
              Point(SeoulA, BusanC, "11t", 1200000),
              Point(SeoulB, BusanC, "11t", 900000),
              Point(Seoul, Busan, "11t", 800000),
              Point(SeoulA, BusanC, "5t", 800000) }
        Requests ==
            { [origin |-> SeoulA, destination |-> BusanC, vehicleType |-> "11t"],
              [origin |-> SeoulB, destination |-> BusanC, vehicleType |-> "11t"],
              [origin |-> Seoul, destination |-> Busan, vehicleType |-> "11t"] }
    IN
    /\ StoreEmpty /\ CallsIdle /\ BatchIdle
    /\ fnArgs \in [rows : BoundedSeqs(StoredPoints, MaxStoreRows),
                    input : Requests]
    /\ fnValue = NotCalled

PriceWithMarket ==
    /\ fnValue = NotCalled
    /\ fnValue' = Returned(calculateFPHPrice(fnArgs.input, NoRows,
                                             fnArgs.rows))
    /\ UNCHANGED <<fnArgs, storeVars, callVars, batchVars>>

SpecMarket == InitMarket /\ [][PriceWithMarket]_vars

-----------------------------------------------------------------------------
(* Quantile harness: quantile applied to every bounded sorted list *)

MaxSortedLen == 4

InitQuantile ==
    LET \* Values of either sign; 1..4 and 5 give the lists [1,2,3,4] and [5].
        QuantileValues == {-3, 1, 2, 3, 4, 5}
        IsSorted(s) == \A i \in 1..(Len(s) - 1) : s[i] <= s[i + 1]
    IN
    /\ StoreEmpty /\ CallsIdle /\ BatchIdle
    /\ fnArgs \in [sorted : {s \in BoundedSeqs(QuantileValues, MaxSortedLen) :
                                 IsSorted(s)},
                    qn : 0..4]
    /\ fnValue = NotCalled

ApplyQuantile ==
    /\ fnValue = NotCalled
    /\ fnValue' = Returned(quantile(fnArgs.sorted, fnArgs.qn))
    /\ UNCHANGED <<fnArgs, storeVars, callVars, batchVars>>

SpecQuantile == InitQuantile /\ [][ApplyQuantile]_vars

-----------------------------------------------------------------------------
(* Filter harness: applyIQRFilter applied to every bounded list *)

MaxFilterLen == 6

InitFilter ==
    LET \* A tight cluster and one far value, in any order and multiplicity.
        FilterValues == {10, 11, 12, 13, 100}
    IN
    /\ StoreEmpty /\ CallsIdle /\ BatchIdle
    /\ fnArgs \in [values : BoundedSeqs(FilterValues, MaxFilterLen)]
    /\ fnValue = NotCalled

ApplyIQRFilter ==
    /\ fnValue = NotCalled
    /\ fnValue' = Returned(applyIQRFilter(fnArgs.values))
    /\ UNCHANGED <<fnArgs, storeVars, callVars, batchVars>>

SpecFilter == InitFilter /\ [][ApplyIQRFilter]_vars

-----------------------------------------------------------------------------
(* CSV harness: both parsers applied to bounded files *)

MaxCsvRows == 2

\* The files of a parser: nothing, or a header line and bounded data lines.
CsvFiles(headerLines, dataLines) ==
    {<<>>} \cup {<<h>> \o rows :
                    h \in headerLines,
                    rows \in BoundedSeqs(dataLines, MaxCsvRows)}

InitCsv ==
    LET \* Header lines: the documented names, aliases (with a second price column
        \* and an unmapped column), and one without the freightType column.
        MarketHeaderLines ==
            {<<"date", "origin", "destination", "vehicleType", "freightType",
               "unitPrice">>,
             <<"Date", "Departure", "Arrival", "Ton Type", "Cargo-Type", "Fare",
               "memo", "amount">>,
             <<"date", "origin", "destination", "vehicleType", "unitPrice">>}
        \* Data lines in the column order of the header lines.
        MarketDataLines ==
            {<<"2024-01-15", "Seoul/A", "Busan/C", "11t", "General", "850000">>,
             <<"2024/01/15", "Seoul/A", "Busan/C", "11t", "", "1,200,000">>,
             <<"not a date", "Seoul/A", "Busan/C", "11t", "General", "850000">>,
             <<"", "Seoul/A", "Busan/C", "11t", "General", "850000">>,
             <<"2024-01-15", "", "Busan/C", "11t", "General", "850000">>,
             <<"2024-01-15", "Seoul/A", "", "11t", "General", "850000">>,
             <<"2024-01-15", "Seoul/A", "Busan/C", "", "General", "850000">>,
             <<"2024-01-15", "Seoul/A", "Busan/C", "11t", "General", "0">>,
             <<"2024-01-15", "Seoul/A", "Busan/C", "11t", "General", "-5">>,
             <<"2024-01-15", "Seoul/A", "Busan/C", "11t", "General", "abc">>,
             <<"2024-01-15", "Seoul/A", "Busan/C", "11t", "General", "850000 KRW">>,
             <<"2024-01-15", "Seoul/A">>,
             <<"not a date", "", "", "", "", "abc">>}
        CostHeaderLines ==
            {<<"category", "item", "value", "unit", "description">>,
             <<"Type", "Name", "Value", "Unit", "Note", "key">>,
             <<"category", "item", "value", "description">>}
        CostDataLines ==
            {<<"Variable", "fuel_price", "1650", "KRW/L", "Diesel">>,
             <<"Variable", "fuel_efficiency", "0", "km/L", "">>,
             <<"Policy", "company_margin_rate", "-5", "%", "x">>,
             <<"Other", "fuel_price", "1650", "KRW/L", "x">>,
             <<"", "fuel_price", "1650", "KRW/L", "x">>,
             <<"Fixed", "", "1650", "KRW", "x">>,
             <<"Risk", "freight_risk_fragile", "abc", "%", "x">>,
             <<"Risk", "freight_risk_fragile", "1650", "", "x">>,
             <<"Fixed">>}
    IN
    /\ StoreEmpty /\ CallsIdle /\ BatchIdle
    /\ fnArgs \in
          {[parser |-> "market", lines |-> f] :
              f \in CsvFiles(MarketHeaderLines, MarketDataLines)}
          \cup {[parser |-> "cost", lines |-> f] :
                   f \in CsvFiles(CostHeaderLines, CostDataLines)}
    /\ fnValue = NotCalled

ParseMarketDataCsv ==
    /\ fnValue = NotCalled
    /\ fnArgs.parser = "market"
    /\ fnValue' = Returned(parseMarketDataCsv(fnArgs.lines))
    /\ UNCHANGED <<fnArgs, storeVars, callVars, batchVars>>

ParseCostMasterCsv ==
    /\ fnValue = NotCalled
    /\ fnArgs.parser = "cost"
    /\ fnValue' = Returned(parseCostMasterCsv(fnArgs.lines))
    /\ UNCHANGED <<fnArgs, storeVars, callVars, batchVars>>

NextCsv == ParseMarketDataCsv \/ ParseCostMasterCsv

SpecCsv == InitCsv /\ [][NextCsv]_vars

-----------------------------------------------------------------------------
(* Properties of Tier 3 (SpecTier3) *)

\* C1: for every Tier 3 computation, finalPrice is a multiple of 1000, is at
\* least subtotalBeforeRounding and exceeds it by less than 1000; a
\* subtotal already divisible by 1000 is returned unchanged (850000 gives
\* 850000, 850001 gives 851000).
Tier3RoundsUpToThousand ==
    fnValue.called =>
        LET subtotal == fnValue.value.subtotalBeforeRounding
            final == fnValue.value.finalPrice
        IN  /\ final % 1000 = 0
            /\ final >= subtotal
            /\ final - subtotal < 1000
            /\ subtotal % 1000 = 0 => final = subtotal
            /\ subtotal = 850000 => final = 850000
            /\ subtotal = 850001 => final = 851000

\* A Tier 3 computation with a negative manual adjustment whose subtotal,
\* one above a multiple of 1000, was rounded up by 999.
Tier3RoundedUpWitness ==
    /\ fnValue.called
    /\ fnArgs.manualAdjustmentRate < 0
    /\ fnValue.value.subtotalBeforeRounding % 1000 = 1
    /\ fnValue.value.finalPrice
           = fnValue.value.subtotalBeforeRounding + 999

-----------------------------------------------------------------------------
(* Properties of computeConfidence (SpecConfidence) *)

\* C7: every score computeConfidence returns lies in [0, 1] (0..100
\* hundredths), for any sample size >= 0, any list of filtered values
\* (empty, single-element, of zero or negative mean) and either fallback
\* flag.
ConfidenceInUnitInterval ==
    fnValue.called => fnValue.value \in 0..100

\* A call with a sample size above the cap of the size factor and values of
\* negative mean, which scored the full 1.0.
ConfidenceCappedWitness ==
    /\ fnValue.called
    /\ fnArgs.sampleSize > 30
    /\ Len(fnArgs.filteredValues) >= 2
    /\ SumSeq(fnArgs.filteredValues) < 0
    /\ ~fnArgs.isFallback
    /\ fnValue.value = 100


\* k hundredths is (sizeFactor * 0.6 + consistencyFactor * 0.4) * P / 10
\* rounded to the nearest hundredth (a value midway may go either way), with
\* sizeFactor = min(sampleSize / 30, 1) and consistencyFactor = max(0, 1 - CV),
\* CV = sqrt(D) / s for s the sum of the m values and D = m * sum(v^2) - s^2;
\* consistencyFactor is 1 when m < 2 or the mean is <= 0.
IsWeightedScore(k, P, sampleSize, values) ==
    LET N == IF sampleSize < 30 THEN sampleSize ELSE 30
        m == Len(values)
        s == SumSeq(values)
        D == m * SumSq(values) - s * s
        A == 2 * P * (N + 20) - 10 * k
    IN  IF m < 2 \/ s <= 0 THEN A \in -5..5
        ELSE IF D >= s * s THEN (2 * P * N - 10 * k) \in -5..5
        ELSE /\ A - 5 <= 0 \/ (s * (A - 5)) * (s * (A - 5)) <= 1600 * P * P * D
             /\ A + 5 >= 0
             /\ 1600 * P * P * D <= (s * (A + 5)) * (s * (A + 5))

\* C19 as stated: the score is the weighted sum sizeFactor * 0.6 +
\* consistencyFactor * 0.4 rounded to 2 decimals and then multiplied by 0.7
\* for a fallback result and by 1.0 otherwise.
ConfidenceRoundedBeforePenalty ==
    fnValue.called =>
        \E rounded \in 0..100 :
            /\ IsWeightedScore(rounded, 10, fnArgs.sampleSize,
                               fnArgs.filteredValues)
            /\ 10 * fnValue.value
                   = rounded * (IF fnArgs.isFallback THEN 7 ELSE 10)

\* C19 (amended): the score is (sizeFactor * 0.6 + consistencyFactor * 0.4)
\* multiplied by 0.7 for a fallback result and by 1.0 otherwise, the product
\* then rounded to 2 decimals, with sizeFactor = min(sampleSize / 30, 1.0)
\* and consistencyFactor = max(0, 1 - CV) over the filtered values (1.0 when
\* there are fewer than 2 of them or their mean is <= 0).
ConfidenceRoundedAfterPenalty ==
    fnValue.called =>
        IsWeightedScore(fnValue.value,
                        IF fnArgs.isFallback THEN 7 ELSE 10,
                        fnArgs.sampleSize, fnArgs.filteredValues)

\* A fallback result of four samples with filtered values 1 and 3 (CV 0.5):
\* the weighted sum 0.28 times 0.7 is 0.196, returned as 0.20.
FallbackScoreWitness ==
    /\ fnValue.called
    /\ fnArgs.isFallback
    /\ fnArgs.sampleSize = 4
    /\ fnArgs.filteredValues = <<1, 3>>
    /\ fnValue.value = 20

-----------------------------------------------------------------------------
(* Properties of analyzeMarketData (SpecAnalyze) *)

\* The prices of the observations of points with exactly this route.
GroupPrices(o, d, v) ==
    LET In(x) == x.origin = o /\ x.destination = d /\ x.vehicleType = v
        members == SelectSeq(fnArgs, In)
    IN  [j \in 1..Len(members) |-> members[j].unitPrice]

\* The prices of the observations of points within this province pair.
PoolPrices(po, pd, v) ==
    LET In(x) == /\ extractProvince(x.origin) = po
                 /\ extractProvince(x.destination) = pd
                 /\ x.vehicleType = v
        members == SelectSeq(fnArgs, In)
    IN  [j \in 1..Len(members) |-> members[j].unitPrice]

ResultSet == {fnValue.value[i] : i \in 1..Len(fnValue.value)}

\* The median the code reports for a list of prices after IQR filtering.
FilteredMedian(prices) ==
    RoundDiv(median(sortedNumeric(applyIQRFilter(prices).filtered)), 4)

\* C8: a group with >= 5 observations yields a non-fallback result computed
\* from that group alone (sampleSize = group size); a group with < 5
\* observations never yields a non-fallback result; its fallback result is
\* IQR-filtered from the province pool when that pool has >= 5
\* observations, and otherwise computed from the raw unfiltered values with
\* isFallback = true.
ClassifiedBySampleSize ==
    fnValue.called =>
        /\ \A r \in ResultSet :
              ~r.isFallback =>
                  Len(GroupPrices(r.origin, r.destination, r.vehicleType)) >= 5
        /\ \A i \in 1..Len(fnArgs) :
              LET x == fnArgs[i]
                  group == GroupPrices(x.origin, x.destination, x.vehicleType)
                  po == extractProvince(x.origin)
                  pd == extractProvince(x.destination)
                  pool == PoolPrices(po, pd, x.vehicleType)
              IN  IF Len(group) >= 5
                  THEN \E r \in ResultSet :
                          /\ ~r.isFallback
                          /\ r.origin = x.origin
                          /\ r.destination = x.destination
                          /\ r.vehicleType = x.vehicleType
                          /\ r.sampleSize = Len(group)
                          /\ r.filteredSize
                                = Len(applyIQRFilter(group).filtered)
                          /\ r.median = FilteredMedian(group)
                  ELSE IF Len(pool) >= 5
                  THEN \E r \in ResultSet :
                          /\ r.isFallback
                          /\ r.origin = po
                          /\ r.destination = pd
                          /\ r.vehicleType = x.vehicleType
                          /\ r.sampleSize = Len(pool)
                          /\ r.filteredSize
                                = Len(applyIQRFilter(pool).filtered)
                          /\ r.median = FilteredMedian(pool)
                  ELSE \E r \in ResultSet :
                          /\ r.isFallback
                          /\ extractProvince(r.origin) = po
                          /\ extractProvince(r.destination) = pd
                          /\ r.vehicleType = x.vehicleType
                          /\ r.sampleSize = Len(pool)
                          /\ r.filteredSize = Len(pool)
                          /\ r.median
                                = RoundDiv(median(sortedNumeric(pool)), 4)
                          /\ r.iqr = 0

\* An analysis of a group of exactly 5, with a non-fallback result, and of a
\* small group served from a province pool of >= 5 whose IQR filter removed
\* an outlier.
ExactAndPoolWitness ==
    /\ fnValue.called
    /\ \E r \in ResultSet : ~r.isFallback /\ r.sampleSize = 5
    /\ \E r \in ResultSet :
          r.isFallback /\ r.sampleSize >= 5 /\ r.filteredSize < r.sampleSize

\* C9: the output of analyzeMarketData holds at most one result per
\* (origin, destination, vehicleType), also when some observations carry a
\* bare province name and others "Province/District".
OneResultPerRoute ==
    fnValue.called =>
        \A i, j \in 1..Len(fnValue.value) :
            (/\ fnValue.value[i].origin = fnValue.value[j].origin
             /\ fnValue.value[i].destination = fnValue.value[j].destination
             /\ fnValue.value[i].vehicleType = fnValue.value[j].vehicleType)
                => i = j

\* C10: the confidence scores of a returned list are non-increasing from
\* first to last, and an empty input yields an empty list.
SortedByConfidence ==
    fnValue.called =>
        /\ \A i \in 1..(Len(fnValue.value) - 1) :
              fnValue.value[i].confidenceScore
                  >= fnValue.value[i + 1].confidenceScore
        /\ fnArgs = <<>> => fnValue.value = <<>>

\* The observations a result was computed from: the exact group of a
\* non-fallback result, the province pool of a fallback result.
SourcePrices(r) ==
    IF r.isFallback
    THEN PoolPrices(extractProvince(r.origin), extractProvince(r.destination),
                    r.vehicleType)
    ELSE GroupPrices(r.origin, r.destination, r.vehicleType)

\* C11: every result of analyzeMarketData has 1 <= filteredSize <=
\* sampleSize, sampleSize being the size of the pool it was computed from
\* (the IQR filter only removes values, and never all of them), and its
\* median lies between the least and the greatest price of that pool.
FilterKeepsSomeOfPool ==
    fnValue.called =>
        \A r \in ResultSet :
            LET pool == SourcePrices(r)
            IN  /\ 1 <= r.filteredSize
                /\ r.filteredSize <= r.sampleSize
                /\ r.sampleSize = Len(pool)
                /\ \E i \in 1..Len(pool) : pool[i] <= r.median
                /\ \E i \in 1..Len(pool) : r.median <= pool[i]

\* An analysis with a result whose filter removed an outlier of its pool and
\* one whose median lies strictly between two prices of its pool.
OutlierRemovedWitness ==
    /\ fnValue.called
    /\ \E r \in ResultSet :
          /\ r.filteredSize < r.sampleSize
          /\ \E i \in 1..Len(SourcePrices(r)) :
                SourcePrices(r)[i] > r.upperBound
    /\ \E r \in ResultSet :
          /\ \E i \in 1..Len(SourcePrices(r)) : SourcePrices(r)[i] < r.median
          /\ \E i \in 1..Len(SourcePrices(r)) : SourcePrices(r)[i] > r.median

\* An analysis whose first group scored lower than a later one, so that the
\* sort had to move the later result to the front.
ReorderedWitness ==
    /\ fnValue.called
    /\ Len(fnValue.value) >= 2
    /\ fnValue.value[1].confidenceScore > fnValue.value[2].confidenceScore
    /\ fnArgs[1].vehicleType = fnValue.value[2].vehicleType
    /\ fnArgs[1].vehicleType # fnValue.value[1].vehicleType


\* The province key of a result: province(origin), province(destination),
\* vehicleType.
ProvinceKeyOf(r) ==
    <<extractProvince(r.origin), extractProvince(r.destination), r.vehicleType>>

\* C21: one output of analyzeMarketData holds at most one fallback result
\* per province key, however many small exact groups map to the key and
\* whichever fallback branch produced it.
OneFallbackPerProvinceKey ==
    fnValue.called =>
        \A i, j \in 1..Len(fnValue.value) :
            (/\ fnValue.value[i].isFallback
             /\ fnValue.value[j].isFallback
             /\ ProvinceKeyOf(fnValue.value[i]) = ProvinceKeyOf(fnValue.value[j]))
                => i = j

\* Two small exact groups (Seoul/A and Seoul/B to Busan/C) of one province
\* key whose pool of five was reported once, as the only fallback result.
SharedPoolWitness ==
    /\ fnValue.called
    /\ Len(GroupPrices(SeoulA, BusanC, "11t")) \in 1..4
    /\ Len(GroupPrices(SeoulB, BusanC, "11t")) \in 1..4
    /\ Len(PoolPrices(Seoul, Busan, "11t")) >= 5
    /\ Cardinality({i \in 1..Len(fnValue.value) :
                       /\ fnValue.value[i].isFallback
                       /\ ProvinceKeyOf(fnValue.value[i])
                              = <<Seoul, Busan, "11t">>}) = 1


\* The fields of a result computed from all of these prices, unfiltered.
IsUnfilteredResultOf(r, prices) ==
    /\ r.iqr = 0
    /\ r.lowerBound = 0
    /\ r.upperBound = 0
    /\ r.sampleSize = Len(prices)
    /\ r.filteredSize = Len(prices)
    /\ r.median = RoundDiv(median(sortedNumeric(prices)), 4)
    /\ r.isFallback
    /\ r.fallbackLevel = "province"

\* C22: when an exact group and its province pool both have fewer than 5
\* observations, the result emitted for them applies no filtering: iqr,
\* lowerBound and upperBound are 0, filteredSize = sampleSize = the size of
\* the province pool, median is the (rounded) median of all the pool's
\* values, isFallback is true and fallbackLevel is "province".
SmallPoolUnfiltered ==
    fnValue.called =>
        /\ \A i \in 1..Len(fnArgs) :
              LET x == fnArgs[i]
                  key == ProvinceKeyOf(x)
                  pool == PoolPrices(key[1], key[2], key[3])
              IN  Len(pool) < 5 =>
                      \E r \in ResultSet :
                          /\ ProvinceKeyOf(r) = key
                          /\ IsUnfilteredResultOf(r, pool)
        /\ \A r \in ResultSet :
              LET key == ProvinceKeyOf(r)
                  pool == PoolPrices(key[1], key[2], key[3])
              IN  Len(pool) < 5 => IsUnfilteredResultOf(r, pool)

\* A pool of two observations from two exact groups (800000 and 900000),
\* reported unfiltered with median 850000 and sample size 2.
SmallPoolWitness ==
    /\ fnValue.called
    /\ Len(fnArgs) = 2
    /\ Len(GroupPrices(SeoulA, BusanC, "11t")) = 1
    /\ Len(GroupPrices(SeoulB, BusanC, "11t")) = 1
    /\ Len(fnValue.value) = 1
    /\ fnValue.value[1].sampleSize = 2
    /\ fnValue.value[1].median = 850000
    /\ fnValue.value[1].iqr = 0
    /\ fnValue.value[1].fallbackLevel = "province"

\* The list s with the elements at i and i + 1 exchanged.
SwapAdjacent(s, i) ==
    [j \in 1..Len(s) |-> IF j = i THEN s[i + 1] ELSE IF j = i + 1 THEN s[i]
                         ELSE s[j]]

\* The results of an analysis as a set, each reduced to its origin,
\* destination, vehicleType, median, sampleSize, filteredSize,
\* confidenceScore and isFallback.
ReportedSet(results) ==
    {[origin |-> results[i].origin, destination |-> results[i].destination,
      vehicleType |-> results[i].vehicleType, median |-> results[i].median,
      sampleSize |-> results[i].sampleSize,
      filteredSize |-> results[i].filteredSize,
      confidenceScore |-> results[i].confidenceScore,
      isFallback |-> results[i].isFallback] : i \in 1..Len(results)}

\* C30: analyzeMarketData does not depend on the order of its input: every
\* permutation of the same observations yields the same set of results.
\* (Stated for the exchange of two neighbours; the lists analysed are closed
\* under permutation, and neighbour exchanges generate every permutation.)
AnalysisOrderIndependent ==
    fnValue.called =>
        \A i \in 1..(Len(fnArgs) - 1) :
            ReportedSet(analyzeMarketData(SwapAdjacent(fnArgs, i)))
                = ReportedSet(fnValue.value)

-----------------------------------------------------------------------------
(* Properties of runBatchSimulation (SpecBatch) *)

\* C3: runBatchSimulation returns normally for every list of requests: a
\* request whose pricing run fails (a missing origin or destination, a null
\* or non-object row) yields one error entry and every later request is
\* still processed.
BatchNeverThrows ==
    /\ batchPc # "thrown"
    /\ batchPc = "returned" =>
          Len(batchResults) + Len(batchErrors) = Len(batchInputs)


\* The positions (from 0) of the inputs that were not reported as errors.
PricedPositions ==
    (0..(Len(batchInputs) - 1))
        \ {batchErrors[k].index : k \in 1..Len(batchErrors)}

\* The j-th of them in ascending order.
PricedPosition(j) ==
    CHOOSE p \in PricedPositions :
        Cardinality({q \in PricedPositions : q < p}) = j - 1

\* C20: when runBatchSimulation returns, every input position has exactly
\* one outcome: the error entries carry strictly increasing positions of the
\* inputs array (counted from 0), each with the route label made of its
\* input's origin and destination ("?" standing for a missing one); the
\* results are those of the remaining inputs, in the order of their
\* requests; and results.length + errors.length = inputs.length.
BatchOneOutcomePerInput ==
    batchPc = "returned" =>
        /\ \A k \in 1..Len(batchErrors) :
              LET i == batchErrors[k].index
                  input == batchInputs[i + 1]
              IN  /\ i \in 0..(Len(batchInputs) - 1)
                  /\ batchErrors[k].route[1] =
                         IF "origin" \in DOMAIN input THEN input.origin
                         ELSE <<"?">>
                  /\ batchErrors[k].route[2] =
                         IF "destination" \in DOMAIN input
                         THEN input.destination ELSE <<"?">>
        /\ \A k \in 1..(Len(batchErrors) - 1) :
              batchErrors[k].index < batchErrors[k + 1].index
        /\ Len(batchResults) = Cardinality(PricedPositions)
        /\ \A j \in 1..Len(batchResults) :
              batchResults[j].input = batchInputs[PricedPosition(j) + 1]
        /\ Len(batchResults) + Len(batchErrors) = Len(batchInputs)

\* A returned batch of three requests whose first and last failed and whose
\* second was priced.
BatchMixedOutcomeWitness ==
    /\ batchPc = "returned"
    /\ Len(batchInputs) = 3
    /\ Len(batchErrors) = 2
    /\ batchErrors[1].index = 0
    /\ batchErrors[2].index = 2
    /\ batchErrors[1].route = <<<<"?">>, BusanC>>
    /\ Len(batchResults) = 1
    /\ batchResults[1].input = batchInputs[2]

-----------------------------------------------------------------------------
(* Properties of calculateAndSave and calculateFPHPrice (Spec) *)

\* The results of analyzeMarketData over the rows findMany returned that
\* findMarketMedian accepts for a request: an exact-route result or a
\* province-level one.
MarketMatches(rows, request) ==
    LET results == analyzeMarketData(rows)
    IN  {r \in {results[i] : i \in 1..Len(results)} :
            \/ /\ r.origin = request.origin
               /\ r.destination = request.destination
            \/ /\ r.isFallback
               /\ r.origin = extractProvince(request.origin)
               /\ r.destination = extractProvince(request.destination)}

\* The Tier 2 of a result is the pass-through of its Tier 1.
PassedThrough(res) ==
    /\ res.tier2.adjustedPrice = res.tier1.subtotal
    /\ res.tier2.confidenceScore = 0
    /\ res.tier2.hasMarketData = FALSE
    /\ res.tier2.adjustmentFactor = 1000
    /\ res.summary.tier2_adjusted = res.summary.tier1_base

\* C2: when Tier 2 finds neither an exact-route nor a province-level result
\* for the request (in particular when the store holds no MarketData for
\* the vehicle type), the run completes with tier2.adjustedPrice equal to
\* tier1.subtotal, confidenceScore 0, hasMarketData false and
\* adjustmentFactor 1.0.
PassThroughWithoutMarket ==
    [][\A c \in Calls :
          (pc[c] = "market" /\ pc'[c] = "upsert") =>
              /\ callResult'[c] # Null
              /\ MarketMatches(marketSeen'[c], callInput[c]) = {}
                    => PassedThrough(callResult'[c])
              /\ marketSeen'[c] = <<>> => PassedThrough(callResult'[c])]_vars

\* A run that saw MarketData rows of its vehicle type, none of them matching
\* its route or province pair, and passed the Tier 1 price through.
PassThroughWitness ==
    \E c \in Calls :
        /\ callResult[c] # Null
        /\ marketSeen[c] # <<>>
        /\ MarketMatches(marketSeen[c], callInput[c]) = {}
        /\ PassedThrough(callResult[c])

\* C4: when the price has been computed and the RouteStandard upsert then
\* fails, calculateAndSave still returns the computed FPHResult.
ResultSurvivesUpsertFailure ==
    \A c \in Calls :
        (pc[c] = "thrown" /\ callResult[c] # Null) =>
            outcome[c] = Fulfilled(callResult[c])

\* The last call of the commit history that wrote this row's key.
LastWriter(row) ==
    LET writers == {i \in 1..Len(committed) :
                      rowsOfKey({row}, callInput[committed[i]]) # {}}
    IN  committed[CHOOSE i \in writers : \A j \in writers : j <= i]

\* C5: after any interleaving of concurrent calculateAndSave calls,
\* RouteStandard holds at most one row per (origin, destination,
\* vehicleType), and that row's basePrice, marketAdjustedPrice, finalPrice
\* and confidenceScore all come from the one computation whose upsert
\* committed last.
OneSnapshotPerKey ==
    /\ \A r1, r2 \in routeStandard :
          (/\ r1.origin = r2.origin
           /\ r1.destination = r2.destination
           /\ r1.vehicleType = r2.vehicleType) => r1 = r2
    /\ \A row \in routeStandard :
          /\ \E i \in 1..Len(committed) :
                rowsOfKey({row}, callInput[committed[i]]) # {}
          /\ LET res == callResult[LastWriter(row)]
             IN  /\ row.basePrice = res.summary.tier1_base
                 /\ row.marketAdjustedPrice = res.summary.tier2_adjusted
                 /\ row.finalPrice = res.summary.tier3_final
                 /\ row.confidenceScore = res.summary.overallConfidence

\* Two calls for one key raced: both looked the row up before either wrote
\* it (both planned a create), both committed, their computations differ,
\* and the one row holds the later one's.
RacedUpsertsWitness ==
    \E c, d \in Calls :
        /\ committed = <<c, d>>
        /\ plan[c] = "create" /\ plan[d] = "create"
        /\ callInput[c] = callInput[d]
        /\ createRow(callInput[c], callResult[c])
               # createRow(callInput[d], callResult[d])
        /\ routeStandard = {createRow(callInput[d], callResult[d])}

\* A step of a pricing run of call c: the fetch of the cost variables or the
\* market lookup followed by the three tiers.
RunStep(c) ==
    \/ pc[c] = "costs" /\ pc'[c] = "market"
    \/ pc[c] = "market" /\ pc'[c] = "upsert"

-----------------------------------------------------------------------------
(* Properties of getRouteDistance (SpecDistance) *)

\* The province of a location of the harness.
ProvinceOf(location) == extractProvince(location)[1]

\* The corridor-table entries for an unordered pair of provinces.
CorridorEntries(p1, p2) ==
    {t \in ROAD_DISTANCES : {t[1], t[2]} = {p1, p2}}

\* C12: getRouteDistance(a, b) and getRouteDistance(b, a) have the same
\* outcome, with the same distanceKm and the same source, in every branch:
\* same province, corridor table under either key direction, centroid
\* estimate and default.
DistanceSymmetric ==
    fnValue.called =>
        fnValue.value = getRouteDistance(fnArgs.destination, fnArgs.origin)

\* Calls of each branch with different origin and destination strings: the
\* same province under two spellings, a corridor stored under the reversed
\* key, a centroid estimate and the default.
DistanceBranchesWitness ==
    /\ fnValue.called
    /\ fnArgs.origin # fnArgs.destination
    /\ \/ /\ ProvinceOf(fnArgs.origin) = ProvinceOf(fnArgs.destination)
          /\ fnValue.value.distanceKm = 30
       \/ /\ fnArgs.origin = SeoulA /\ fnArgs.destination = BusanC
          /\ fnValue.value = [distanceKm |-> 325, source |-> "lookup"]
       \/ /\ fnArgs.origin = <<"Ulsan">> /\ fnArgs.destination = JejuJ
          /\ fnValue.value = [distanceKm |-> 443, source |-> "haversine"]
       \/ /\ fnArgs.origin = <<"Narnia">> /\ fnArgs.destination = SeoulA
          /\ fnValue.value = [distanceKm |-> 200, source |-> "haversine"]

\* C13: getRouteDistance returns a result for every pair of strings, by the
\* first rule that matches: equal provinces give {30, lookup}; otherwise a
\* corridor-table entry for the unordered pair gives {table value, lookup};
\* otherwise two known centroids give {round(haversine x 1.3), haversine};
\* otherwise {200, haversine}.
DistanceRulesTotal ==
    fnValue.called =>
        LET p1 == ProvinceOf(fnArgs.origin)
            p2 == ProvinceOf(fnArgs.destination)
            v == fnValue.value
        IN  /\ v # TypeError
            /\ IF p1 = p2
               THEN v = [distanceKm |-> 30, source |-> "lookup"]
               ELSE IF CorridorEntries(p1, p2) # {}
               THEN /\ v.source = "lookup"
                    /\ \E t \in CorridorEntries(p1, p2) : v.distanceKm = t[3]
               ELSE IF p1 \in PROVINCE_COORDS /\ p2 \in PROVINCE_COORDS
               THEN /\ v.source = "haversine"
                    /\ <<p1, p2, v.distanceKm>> \in HAVERSINE_ROAD_ESTIMATE
               ELSE v = [distanceKm |-> 200, source |-> "haversine"]

-----------------------------------------------------------------------------
(* Properties of Tier 1 (SpecTier1) *)

\* The vehicle types of the efficiency table.
RecognizedVehicleTypes ==
    {"1t", "2.5t", "3.5t", "5t", "8t", "11t", "15t", "18t", "25t"}

\* C14: fuelCost = round(distanceKm / efficiency x fuelPrice), tollCost =
\* round(distanceKm x tollRate), operatingCost = fuelCost + tollCost +
\* fixedCost, driverProfit = round(operatingCost x driverProfitRate) and
\* subtotal = operatingCost + driverProfit, with the efficiency of the
\* vehicle-type table for a recognized vehicle type and the fuel_efficiency
\* cost variable for an unrecognized one; 325 km, 11t and the default cost
\* variables give 153214, 39000, 150000, 342214, 51332 and 393546.
Tier1Formula ==
    fnValue.called =>
        LET km == fnArgs.distance.distanceKm
            costs == fnArgs.costs
            efficiency ==
                IF fnArgs.vehicleType \in RecognizedVehicleTypes
                THEN VEHICLE_EFFICIENCY[fnArgs.vehicleType]
                ELSE costs["fuel_efficiency"]
            fuelCost == RoundDiv(km * 10 * costs["fuel_price"], efficiency)
            tollCost == km * costs["toll_rate"]
            operatingCost == fuelCost + tollCost + costs["vehicle_fixed_cost"]
            driverProfit ==
                RoundDiv(operatingCost * costs["driver_profit_rate"], 100)
            out == fnValue.value
        IN  /\ out.fuelCost = fuelCost
            /\ out.tollCost = tollCost
            /\ out.fixedCost = costs["vehicle_fixed_cost"]
            /\ out.driverProfit = driverProfit
            /\ out.subtotal = operatingCost + driverProfit
            /\ (km = 325 /\ fnArgs.vehicleType = "11t"
                   /\ costs = COST_DEFAULTS) =>
                  /\ out.fuelCost = 153214
                  /\ out.tollCost = 39000
                  /\ out.fixedCost = 150000
                  /\ out.fuelCost + out.tollCost + out.fixedCost = 342214
                  /\ out.driverProfit = 51332
                  /\ out.subtotal = 393546

-----------------------------------------------------------------------------
(* Properties of the cost-variable store (SpecCosts) *)

\* C15: after any sequence of cost-variable store changes, every pricing
\* run divides by a strictly positive efficiency in Tier 1, for recognized
\* and unrecognized vehicle types alike, and its fuelCost is a finite
\* number.
EfficiencyAlwaysPositive ==
    fnValue.called =>
        /\ IsFinite(fnValue.value.efficiency)
        /\ fnValue.value.efficiency > 0
        /\ IsFinite(fnValue.value.tier1.fuelCost)


\* C25: each pricing run uses, for each of the nine cost keys, the value of
\* the CostMaster row that exists at that moment (a stored 0 included) and
\* the compiled-in default exactly when the key has no row; an update,
\* upload or create is therefore visible to the next run, and after a
\* delete the next run uses the default again.
CostsResolvedFromCurrentRows ==
    [][PriceTier1 =>
          /\ \A k \in {"fuel_price", "fuel_efficiency", "toll_rate",
                       "vehicle_fixed_cost", "driver_profit_rate",
                       "company_margin_rate", "freight_risk_fragile",
                       "freight_risk_refrigerated", "freight_risk_hazardous"} :
                fnArgs'.costs[k] = IF k \in DOMAIN costMaster THEN costMaster[k]
                                   ELSE COST_DEFAULTS[k]
          /\ fnArgs'.vehicleType = "40t" =>
                fnValue'.value.efficiency =
                    IF "fuel_efficiency" \in DOMAIN costMaster
                    THEN costMaster["fuel_efficiency"] ELSE 35]_vars

\* A run over a store whose fuel_price row holds an edited value and whose
\* fuel_efficiency row does not exist: it used 1700 and the default 3.5.
DefaultAfterDeleteWitness ==
    /\ fnValue.called
    /\ "fuel_price" \in DOMAIN costMaster
    /\ costMaster["fuel_price"] = 1700
    /\ "toll_rate" \in DOMAIN costMaster
    /\ "fuel_efficiency" \notin DOMAIN costMaster
    /\ fnArgs.vehicleType = "40t"
    /\ fnArgs.costs["fuel_price"] = 1700
    /\ fnArgs.costs["fuel_efficiency"] = 35
    /\ fnValue.value.efficiency = 35

-----------------------------------------------------------------------------
(* Properties of the CSV parsers (SpecCsv) *)

\* The header mapping and the required fields of the parser applied.
ParserMapping ==
    IF fnArgs.parser = "market" THEN MARKET_DATA_HEADERS
    ELSE COST_MASTER_HEADERS

ParserFields == IF fnArgs.parser = "market" THEN MarketFields ELSE CostFields

\* The file has a header line with a column for every required field.
RequiredColumnsPresent ==
    /\ Len(fnArgs.lines) >= 1
    /\ \A f \in ParserFields :
          \E i \in 1..Len(fnArgs.lines[1]) :
              /\ normalizeHeader(fnArgs.lines[1][i]) \in DOMAIN ParserMapping
              /\ ParserMapping[normalizeHeader(fnArgs.lines[1][i])] = f

\* The conditions under which a row is accepted.
Accepted(row) ==
    IF fnArgs.parser = "market"
    THEN /\ dateParses(row["date"])
         /\ row["origin"] # "" /\ row["destination"] # ""
         /\ row["vehicleType"] # ""
         /\ row["unitPrice"] # NaN /\ row["unitPrice"] > 0
    ELSE /\ row["category"] \in {"Variable", "Fixed", "Policy", "Risk"}
         /\ row["item"] # "" /\ row["unit"] # ""
         /\ row["value"] # NaN

\* The row object of data line i (line i + 1 of the file).
DataRow(i) ==
    buildRow(mapHeaders(fnArgs.lines[1], ParserMapping,
                        ParserFields).columnMap,
             fnArgs.lines[i + 1],
             IF fnArgs.parser = "market" THEN "unitPrice" ELSE "value")

\* Every data line is one accepted record or one row-numbered error.
OneOutcomePerRow ==
    LET out == fnValue.value
        n == Len(fnArgs.lines) - 1
    IN  /\ out.totalRows = n
        /\ Len(out.data) + Len(out.errors) = out.totalRows
        /\ \A k \in 1..Len(out.data) : Accepted(out.data[k])
        /\ \A k \in 1..Len(out.errors) : out.errors[k].row \in 2..(n + 1)
        /\ \A k \in 1..(Len(out.errors) - 1) :
              out.errors[k].row < out.errors[k + 1].row
        /\ \A i \in 1..n :
              (\E k \in 1..Len(out.errors) : out.errors[k].row = i + 1)
                  <=> ~Accepted(DataRow(i))

-----------------------------------------------------------------------------
(* Properties of getFreightRiskRate (SpecFreight) *)

\* Some keyword of the set occurs in the description, compared without
\* regard to case.
MentionsOneOf(freightType, keywords) ==
    /\ freightType # <<>>
    /\ \E k \in keywords :
          includes(toLowerCase(Chars(freightType[1])), Chars(k))

\* C17: the freight risk rate is the fragile rate when the description
\* contains, in any case, one of fragile, paper, glass, ceramic, electronics;
\* else the refrigerated rate when it contains one of refrigerated, frozen,
\* chilled, cold; else the hazardous rate when it contains one of hazardous,
\* chemical, flammable, explosive; a description with no keyword, "General",
\* the empty string and an absent value give 0, and "Refrigerated" gives
\* 0.15 with the default rates.
FreightRiskByKeyword ==
    fnValue.called =>
        LET freightType == fnArgs.freightType
            costs == fnArgs.costs
            rate == fnValue.value
        IN  /\ rate =
                  IF MentionsOneOf(freightType, {"fragile", "paper", "glass",
                                                 "ceramic", "electronics"})
                  THEN costs["freight_risk_fragile"]
                  ELSE IF MentionsOneOf(freightType,
                              {"refrigerated", "frozen", "chilled", "cold"})
                  THEN costs["freight_risk_refrigerated"]
                  ELSE IF MentionsOneOf(freightType,
                              {"hazardous", "chemical", "flammable",
                               "explosive"})
                  THEN costs["freight_risk_hazardous"]
                  ELSE 0
            /\ freightType \in {<<>>, <<"">>, <<"General">>} => rate = 0
            /\ (freightType = <<"Refrigerated">> /\ costs = COST_DEFAULTS)
                   => rate = 15

\* A description naming a hazardous and a refrigerated keyword, in mixed
\* case, that was charged the refrigerated rate.
FreightPrecedenceWitness ==
    /\ fnValue.called
    /\ fnArgs.freightType = <<"Flammable frozen">>
    /\ fnArgs.costs = COST_DEFAULTS
    /\ fnValue.value = 15


-----------------------------------------------------------------------------
(* Properties of computeOverallConfidence (SpecOverall) *)

\* C18: the overall confidence (hundredths) is distanceConfidence * 0.3 +
\* marketConfidence * 0.7 rounded to the nearest hundredth (a value midway
\* between two hundredths may go to either), where distanceConfidence is 1.0
\* for source "lookup" and 0.6 otherwise and marketConfidence is Tier 2's
\* confidence score when it has market data and 0.3 when it has none; it
\* lies in [0, 1], and without market data it is 0.51 for a lookup distance
\* and 0.39 for a haversine one although Tier 2's score is 0.
OverallConfidenceFormula ==
    fnValue.called =>
        LET tier2 == fnArgs.tier2
            distanceConfidence ==
                IF fnArgs.distanceSource = "lookup" THEN 100 ELSE 60
            marketConfidence ==
                IF tier2.hasMarketData THEN tier2.confidenceScore ELSE 30
            overall == fnValue.value
        IN  /\ 10 * overall - (3 * distanceConfidence + 7 * marketConfidence)
                   \in -5..5
            /\ overall \in 0..100
            /\ ~tier2.hasMarketData =>
                   /\ tier2.confidenceScore = 0
                   /\ fnArgs.distanceSource = "lookup" => overall = 51
                   /\ fnArgs.distanceSource = "haversine" => overall = 39

\* A haversine distance without market data, scored 0.39 from a Tier 2
\* confidence of 0.
OverallWithoutMarketWitness ==
    /\ fnValue.called
    /\ fnArgs.distanceSource = "haversine"
    /\ ~fnArgs.tier2.hasMarketData
    /\ fnArgs.tier2.confidenceScore = 0
    /\ fnValue.value = 39


-----------------------------------------------------------------------------
(* Properties of calculateTier2 (SpecTier2) *)

\* C23: with a market result of confidence c (hundredths), adjustedPrice is
\* tier1Base * (1 - c) + median * c rounded to the nearest integer, lies
\* between tier1Base and median inclusive, equals tier1Base when c = 0 and
\* median when c = 1; adjustmentFactor (thousandths) is adjustedPrice /
\* tier1Base rounded to 3 decimals, and 1.0 when tier1Base = 0.
Tier2BlendFormula ==
    (fnValue.called /\ fnArgs.marketResult # Null) =>
        LET tier1Base == fnArgs.tier1Base
            marketMedian == fnArgs.marketResult.median
            c == fnArgs.marketResult.confidenceScore
            adjustedPrice == fnValue.value.adjustedPrice
            adjustmentFactor == fnValue.value.adjustmentFactor
            lo == IF tier1Base < marketMedian THEN tier1Base ELSE marketMedian
            hi == IF tier1Base < marketMedian THEN marketMedian ELSE tier1Base
        IN  /\ IsFinite(tier1Base)
            /\ IsFinite(adjustedPrice)
            /\ IsFinite(adjustmentFactor)
            /\ 100 * adjustedPrice
                   - (tier1Base * (100 - c) + marketMedian * c) \in -50..50
            /\ adjustedPrice \in lo..hi
            /\ c = 0 => adjustedPrice = tier1Base
            /\ c = 100 => adjustedPrice = marketMedian
            /\ tier1Base = 0 => adjustmentFactor = 1000
            /\ tier1Base # 0 =>
                   2 * Abs(adjustmentFactor * tier1Base - 1000 * adjustedPrice)
                       <= Abs(tier1Base)


-----------------------------------------------------------------------------
(* Properties of Tier 2's market lookup (SpecMarket) *)

\* The number of stored observations of the request's vehicle type on its
\* exact route.
ExactCount ==
    Cardinality({i \in 1..Len(fnArgs.rows) :
                    /\ fnArgs.rows[i].origin = fnArgs.input.origin
                    /\ fnArgs.rows[i].destination = fnArgs.input.destination
                    /\ fnArgs.rows[i].vehicleType = fnArgs.input.vehicleType})

\* The number of them between the request's provinces.
ProvinceCount ==
    Cardinality({i \in 1..Len(fnArgs.rows) :
                    /\ extractProvince(fnArgs.rows[i].origin)
                           = extractProvince(fnArgs.input.origin)
                    /\ extractProvince(fnArgs.rows[i].destination)
                           = extractProvince(fnArgs.input.destination)
                    /\ fnArgs.rows[i].vehicleType = fnArgs.input.vehicleType})

\* C24: when the requested exact route has fewer than 5 observations for the
\* vehicle type (none included) and the observations between the same
\* provinces for that vehicle type number at least 5, calculateFPHPrice uses
\* the province-level aggregate: hasMarketData and isFallback are true and
\* sampleSize is the size of the province pool.
ProvinceFallbackUsed ==
    (fnValue.called /\ ExactCount < 5 /\ ProvinceCount >= 5) =>
        /\ fnValue.value.tier2.hasMarketData
        /\ fnValue.value.tier2.isFallback
        /\ fnValue.value.tier2.sampleSize = ProvinceCount

\* C28: whenever the store holds at least one observation for the request's
\* exact (origin, destination, vehicleType), calculateFPHPrice reports
\* tier2.hasMarketData = true, whatever else the store holds and in
\* whatever order.
ExactObservationGivesMarketData ==
    (fnValue.called /\ ExactCount >= 1) => fnValue.value.tier2.hasMarketData

-----------------------------------------------------------------------------
(* Properties of quantile (SpecQuantile) *)

\* C26: quantile(sorted, q) is 0 for the empty list, the element of a
\* one-element list, and otherwise the linear interpolation between the
\* order statistics at floor and ceil of q * (n - 1); quantile([1,2,3,4],
\* 0.5) = 2.5 and quantile([5], 0.5) = 5; for a sorted list the result
\* lies between the first and the last element and does not decrease as q
\* grows.  (Results are numerators over 4.)
QuantileInterpolates ==
    fnValue.called =>
        LET s == fnArgs.sorted
            n == Len(s)
            qn == fnArgs.qn
            r == fnValue.value
            lo == (qn * (n - 1)) \div 4
            hi == CeilDiv(qn * (n - 1), 4)
            frac == qn * (n - 1) - 4 * lo
        IN  /\ n = 0 => r = 0
            /\ n = 1 => r = 4 * s[1]
            /\ n >= 2 => r = s[lo + 1] * (4 - frac) + s[hi + 1] * frac
            /\ n >= 1 => 4 * s[1] <= r /\ r <= 4 * s[n]
            /\ qn >= 1 => quantile(s, qn - 1) <= r
            /\ (s = <<1, 2, 3, 4>> /\ qn = 2) => r = 10
            /\ (s = <<5>> /\ qn = 2) => r = 20

\* The median of [1,2,3,4] was computed: 2.5, strictly between the order
\* statistics 2 and 3.
QuantileInterpolatedWitness ==
    /\ fnValue.called
    /\ fnArgs.sorted = <<1, 2, 3, 4>>
    /\ fnArgs.qn = 2
    /\ fnValue.value = 10

-----------------------------------------------------------------------------
(* Properties of applyIQRFilter (SpecFilter) *)

\* The number of occurrences of v in the list s.
Occurrences(s, v) == Cardinality({i \in 1..Len(s) : s[i] = v})

\* C27: applyIQRFilter keeps exactly the input values v with
\* Q1 - 1.5 * IQR <= v <= Q3 + 1.5 * IQR (both bounds inclusive), each as
\* often as it occurs in the input, in sorted order, and drops all
\* others; for [10,12,11,13,12,100] it drops only 100, so five remain.
\* (Quartiles are numerators over 4, fences numerators over 8.)
FilterKeepsExactlyWithinFences ==
    fnValue.called =>
        LET values == fnArgs.values
            out == fnValue.value
            kept == out.filtered
            Within(v) == /\ 2 * out.q1 - 3 * (out.q3 - out.q1) <= 8 * v
                         /\ 8 * v <= 2 * out.q3 + 3 * (out.q3 - out.q1)
        IN  /\ out.q1 = quantile(sortedNumeric(values), 1)
            /\ out.q3 = quantile(sortedNumeric(values), 3)
            /\ \A i \in 1..(Len(kept) - 1) : kept[i] <= kept[i + 1]
            /\ \A v \in {10, 11, 12, 13, 100} :
                  Occurrences(kept, v) =
                      IF Within(v) THEN Occurrences(values, v) ELSE 0
            /\ values = <<10, 12, 11, 13, 12, 100>> =>
                  kept = <<10, 11, 12, 12, 13>>

\* The list [10,12,11,13,12,100] was filtered: 100 is gone, five remain.
FilterDropsOutlierWitness ==
    /\ fnValue.called
    /\ fnArgs.values = <<10, 12, 11, 13, 12, 100>>
    /\ Len(fnValue.value.filtered) = 5
    /\ \A i \in 1..5 : fnValue.value.filtered[i] # 100

-----------------------------------------------------------------------------
(* Properties of the import actions (SpecUpload) *)

\* C29: for every outcome of uploadMarketData and uploadCostMaster, a
\* database failure part-way through the chunked inserts or the per-row
\* upserts included, the returned importedCount is the number of records
\* the call wrote (MarketData grew by importedCount rows; CostMaster is the
\* table after the first importedCount upserts); a result with success =
\* false and importedCount = 0 leaves MarketData and CostMaster unchanged;
\* errors holds at most 20 messages and, when no database call failed,
\* errorCount is the number of rejected rows.
ImportedCountMatchesStore ==
    [][NextUpload =>
          LET result == fnValue'.value
              parsed == fnArgs'.parsed
          IN  /\ fnArgs'.action = "uploadMarketData" =>
                    result.importedCount = Len(marketData') - Len(marketData)
              /\ fnArgs'.action = "uploadCostMaster" =>
                    costMaster' =
                        IF parsed = Null THEN costMaster
                        ELSE upsertCosts(costMaster,
                                 SubSeq(parsed.data, 1, result.importedCount))
              /\ (~result.success /\ result.importedCount = 0) =>
                    (marketData' = marketData /\ costMaster' = costMaster)
              /\ Len(result.errors) <= 20
              /\ fnArgs'.failAt = 0 =>
                    result.errorCount =
                        IF parsed = Null THEN 0 ELSE Len(parsed.errors)]_vars

====
